---- MODULE Spec2Model ----
(***************************************************************************)
(* A model of sphinxd's log-structured memory allocator (logmem.cpp) and   *)
(* of its single-producer/single-consumer queue (spsc_queue.h).            *)
(*                                                                         *)
(* The allocator is modelled byte for byte: every segment's data area is   *)
(* an array of bytes, an Object is the 12-byte header (three little-endian *)
(* uint32_t) followed by the key and the blob, and a pointer is a segment  *)
(* together with an offset into its data area.  Pointers that outlive a    *)
(* Segment::reset therefore read whatever bytes are at that place.         *)
(***************************************************************************)
EXTENDS Integers, Sequences, FiniteSets, TLC

(***************************************************************************)
(* Program constants.                                                      *)
(***************************************************************************)
sizeof_Object == 12
sizeof_Segment == 16
segment_size == 64
memory_size == 128
size_t_digits == 64
uint_digits == 32

(***************************************************************************)
(* Bounds of the model: the number of calls made on a Log.                 *)
(***************************************************************************)
MaxOps == 5

NULL == [s |-> -1, o |-> 0]
NoSegment == -1

Ptr(s, o) == [s |-> s, o |-> o]

RECURSIVE BitLen(_)
BitLen(x) == IF x = 0 THEN 0 ELSE 1 + BitLen(x \div 2)

(* The outcomes taken for __builtin_clz(0), which is undefined: 32 is what *)
(* lzcnt computes, 25 and 26 lead fls() to the two highest lists of        *)
(* _segments, and 24 leads it past the end of that vector.                 *)
ClzOfZeroOutcomes == {24, 25, 26, 32}

(* The argument is narrowed from size_t to unsigned int, which changes no  *)
(* value a segment size can take.                                          *)
__builtin_clz(x, clz0) ==
    IF x = 0 THEN clz0 ELSE uint_digits - BitLen(x)

ClzOfZeroDefault == CHOOSE c \in ClzOfZeroOutcomes : \A d \in ClzOfZeroOutcomes : d <= c

fls(x, clz0) == size_t_digits - __builtin_clz(x, clz0)

Log_segment_index(size, clz0) == fls(size, clz0)

NrBuckets == Log_segment_index(segment_size, 32) + 1
Buckets == 0 .. (NrBuckets - 1)

NrSegments == (memory_size + segment_size - 1) \div segment_size
Segs == 0 .. (NrSegments - 1)

(* _end - start() of a constructed Segment.                                *)
Capacity == segment_size - sizeof_Segment

(***************************************************************************)
(* Bytes.                                                                  *)
(***************************************************************************)
LEBytes(n) ==
    << n % 256, (n \div 256) % 256, (n \div 65536) % 256, (n \div 16777216) % 256 >>

(* The data area of a segment is the sequence of its bytes; the byte at    *)
(* offset o is m[o + 1].                                                   *)
RdU32(m, o) == m[o + 1] + 256 * m[o + 2] + 65536 * m[o + 3] + 16777216 * m[o + 4]

WriteBytes(m, o, bs) == SubSeq(m, 1, o) \o bs \o SubSeq(m, o + Len(bs) + 1, Len(m))

(* A string_view: a segment, an offset, a length.                          *)
View(s, o, n) == [s |-> s, o |-> o, n |-> n]

ViewInArea(v) == v.o >= 0 /\ v.o + v.n <= Capacity

ViewBytes(L, v) == SubSeq(L.mem[v.s], v.o + 1, v.o + v.n)

(***************************************************************************)
(* Object.                                                                 *)
(***************************************************************************)
Object_size_of(key_size, blob_size) == sizeof_Object + key_size + blob_size

Object_key_size(L, p) == RdU32(L.mem[p.s], p.o)
Object_blob_size(L, p) == RdU32(L.mem[p.s], p.o + 4)
Object_expiration(L, p) == RdU32(L.mem[p.s], p.o + 8)

Object_size(L, p) == Object_size_of(Object_key_size(L, p), Object_blob_size(L, p))

Object_is_expired(L, p) == Object_expiration(L, p) # 0

Object_expire(L, p) ==
    [L EXCEPT !.mem[p.s] = WriteBytes(@, p.o + 8, LEBytes(1))]

Object_key(L, p) == View(p.s, p.o + sizeof_Object, Object_key_size(L, p))

Object_blob(L, p) ==
    View(p.s, p.o + sizeof_Object + Object_key_size(L, p), Object_blob_size(L, p))

Object_Object(key, blob) ==
    LEBytes(Len(key)) \o LEBytes(Len(blob)) \o LEBytes(0) \o key \o blob

(***************************************************************************)
(* Segment.                                                                *)
(***************************************************************************)
Segment_is_empty(L, s) == L.pos[s] = 0

Segment_is_full(L, s) == L.pos[s] = Capacity

Segment_occupancy(L, s) == L.pos[s]

Segment_remaining(L, s) == Capacity - L.pos[s]

Segment_reset(L, s) == [L EXCEPT !.pos[s] = 0]

Segment_append_with_room_to_spare(L, s, key, blob) ==
    IF Capacity - L.pos[s] > Object_size_of(Len(key), Len(blob))
    THEN [L |-> [L EXCEPT !.mem[s] = WriteBytes(@, L.pos[s], Object_Object(key, blob)),
                          !.pos[s] = @ + Object_size_of(Len(key), Len(blob))],
          ret |-> Ptr(s, L.pos[s])]
    ELSE [L |-> L, ret |-> NULL]

Segment_append(L, s, key, blob) ==
    IF Capacity - L.pos[s] >= Object_size_of(Len(key), Len(blob))
    THEN [L |-> [L EXCEPT !.mem[s] = WriteBytes(@, L.pos[s], Object_Object(key, blob)),
                          !.pos[s] = @ + Object_size_of(Len(key), Len(blob))],
          ret |-> Ptr(s, L.pos[s])]
    ELSE [L |-> L, ret |-> NULL]

Segment_first_object(L, s) ==
    IF Segment_is_empty(L, s) THEN NULL ELSE Ptr(s, 0)

Segment_next_object(L, s, p) ==
    IF p.o + Object_size(L, p) >= L.pos[s] THEN NULL ELSE Ptr(s, p.o + Object_size(L, p))

(***************************************************************************)
(* The index, std::unordered_map<Key, Object*>.  A key of the map is a     *)
(* string_view into the object that was written when the entry was         *)
(* inserted, and a node keeps the hash code computed at insertion.  An     *)
(* entry is found for K when its hash code is that of K and the bytes its  *)
(* key views are equal to K.  L.index maps the hashed key to the chain of  *)
(* its entries, each [kv |-> view of the key, obj |-> Object*].            *)
(***************************************************************************)
IndexChain(L, K) == IF K \in DOMAIN L.index THEN L.index[K] ELSE << >>

MatchesIn(L, chain, K) == {i \in 1 .. Len(chain) : ViewBytes(L, chain[i].kv) = K}

IndexMatches(L, K) == MatchesIn(L, IndexChain(L, K), K)

FirstOf(ms) == IF ms = {} THEN 0 ELSE CHOOSE i \in ms : \A j \in ms : i <= j

(* 0 stands for end().                                                     *)
index_find(L, K) == FirstOf(IndexMatches(L, K))

index_at(L, K, i) == IndexChain(L, K)[i]

SetChain(L, K, chain) ==
    IF chain = << >>
    THEN [L EXCEPT !.index = [k \in (DOMAIN L.index) \ {K} |-> L.index[k]]]
    ELSE [L EXCEPT !.index =
             [k \in (DOMAIN L.index) \cup {K} |-> IF k = K THEN chain ELSE L.index[k]]]

EraseAt(chain, i) ==
    [j \in 1 .. (Len(chain) - 1) |-> IF j < i THEN chain[j] ELSE chain[j + 1]]

index_erase(L, K, i) == SetChain(L, K, EraseAt(IndexChain(L, K), i))

(* A faulty insert_or_assign that leaves the mapped value of an existing    *)
(* key as it is.                                                           *)
IndexAssignKeepsValue(L, K, i, obj) ==
    [L |-> L, key |-> K, it |-> i, inserted |-> FALSE]

IndexAssign(L, K, i, obj) ==
    [L |-> [L EXCEPT !.index[K][i].obj = obj], key |-> K, it |-> i, inserted |-> FALSE]

(* A new node goes to either end of the chain of its bucket (L.front),     *)
(* which depends on the rehashes the table has gone through.               *)
IndexInsert(L, K, chain, e) ==
    [L |-> SetChain([L EXCEPT !.asked_front = @ \/ chain # << >>], K,
                    IF L.front THEN << e >> \o chain ELSE chain \o << e >>),
     key |-> K,
     it |-> IF L.front THEN 1 ELSE Len(chain) + 1,
     inserted |-> TRUE]

InsertOrAssignAt(L, K, i, kv, obj) ==
    IF i # 0
    THEN IndexAssign(L, K, i, obj)
    ELSE IndexInsert(L, K, IndexChain(L, K), [kv |-> kv, obj |-> obj])

InsertOrAssignKey(L, K, kv, obj) == InsertOrAssignAt(L, K, index_find(L, K), kv, obj)

(* Returns the key, the place of the entry in its chain and whether it     *)
(* was inserted.                                                           *)
index_insert_or_assign(L, kv, obj) == InsertOrAssignKey(L, ViewBytes(L, kv), kv, obj)

(***************************************************************************)
(* Log.                                                                    *)
(***************************************************************************)
FindAt(L, key, i) ==
    IF i # 0 THEN Object_blob(L, index_at(L, key, i).obj) ELSE NULL

Log_find(L, key) == FindAt(L, key, index_find(L, key))

(* The bytes a caller reads through the result of Log::find; Absent for    *)
(* std::nullopt, Wild for a view that leaves the segment's data area.      *)
Absent == << -1 >>
Wild == << -2 >>

BlobBytes(L, v) ==
    IF v = NULL THEN Absent
    ELSE IF ViewInArea(v) THEN ViewBytes(L, v) ELSE Wild

FindBlob(L, key) == BlobBytes(L, Log_find(L, key))

PutAt(L, s, idx) ==
    IF idx \in Buckets
    THEN [L EXCEPT !.segments[idx] = @ \o << s >>,
                   !.asked_clz0 = @ \/ Segment_remaining(L, s) = 0]
    ELSE [L EXCEPT !.crashed = TRUE,
                   !.asked_clz0 = @ \/ Segment_remaining(L, s) = 0]

Log_put_segment(L, s) ==
    PutAt(L, s, Log_segment_index(Segment_remaining(L, s), L.clz0))

NonEmptyLists(L) == {idx \in Buckets : L.segments[idx] # << >>}

LastOf(S) == CHOOSE idx \in S : \A j \in S : j <= idx

(* Erasing the first node of the list that Log::compact is walking         *)
(* invalidates its iterator, which points to that node.                    *)
GetFrom(L, top) ==
    [L |-> [L EXCEPT !.segments[top] = Tail(@),
                     !.it_st = IF L.it_idx = top /\ @ = "node" THEN "invalid" ELSE @],
     ret |-> Head(L.segments[top])]

Log_get_segment(L) ==
    IF NonEmptyLists(L) = {}
    THEN [L |-> L, ret |-> NoSegment]
    ELSE GetFrom(L, LastOf(NonEmptyLists(L)))

ExpireIfAssigned(ins) ==
    IF ~ins.inserted
    THEN [L |-> Object_expire(ins.L, index_at(ins.L, ins.key, ins.it).obj), ret |-> TRUE]
    ELSE [L |-> ins.L, ret |-> TRUE]

TryToIndex(a) ==
    IF a.ret = NULL
    THEN [L |-> a.L, ret |-> FALSE]
    ELSE ExpireIfAssigned(index_insert_or_assign(a.L, Object_key(a.L, a.ret), a.ret))

Log_try_to_append(L, segment, key, blob) ==
    TryToIndex(Segment_append(L, segment, key, blob))

AfterFreshSegment(t, seg) ==
    IF t.ret
    THEN [L |-> [t.L EXCEPT !.cur = seg], ret |-> TRUE]
    ELSE [L |-> Log_put_segment(t.L, seg), ret |-> FALSE]

WithFreshSegment(g, key, blob) ==
    IF g.ret = NoSegment
    THEN [L |-> g.L, ret |-> FALSE]
    ELSE AfterFreshSegment(Log_try_to_append(g.L, g.ret, key, blob), g.ret)

FromLists(L, key, blob) ==
    IF L.crashed
    THEN [L |-> L, ret |-> FALSE]
    ELSE WithFreshSegment(Log_get_segment(L), key, blob)

AfterCurrentSegment(t, key, blob) ==
    IF t.ret
    THEN t
    ELSE FromLists([Log_put_segment(t.L, t.L.cur) EXCEPT !.cur = NoSegment], key, blob)

Log_append_nocompact(L, key, blob) ==
    IF L.cur # NoSegment
    THEN AfterCurrentSegment(Log_try_to_append(L, L.cur, key, blob), key, blob)
    ELSE FromLists(L, key, blob)

RemoveAt(L, key, i) ==
    IF i # 0
    THEN [L |-> index_erase(Object_expire(L, index_at(L, key, i).obj), key, i),
          ret |-> TRUE]
    ELSE [L |-> L, ret |-> FALSE]

Log_remove(L, key) == RemoveAt(L, key, index_find(L, key))

(* The header, the key and the blob of the object at p can be read         *)
(* without leaving the data area of its segment.                           *)
ObjectInArea(L, p) ==
    /\ p.o + sizeof_Object <= Capacity
    /\ ViewInArea(Object_key(L, p))
    /\ ViewInArea(Object_blob(L, p))

(* An object is counted as garbage by the first pass of the per-segment    *)
(* Log::compact, and skipped by its second pass.                           *)
IsGarbage(L, obj) ==
    \/ Object_is_expired(L, obj)
    \/ index_find(L, ViewBytes(L, Object_key(L, obj))) = 0

AddToReclaim(rest, n) == IF rest < 0 THEN -1 ELSE rest + n

(* The first pass; -1 when the walk leaves the data area.                  *)
RECURSIVE CountToReclaim(_, _, _)
CountToReclaim(L, seg, obj) ==
    IF obj = NULL THEN 0
    ELSE IF ~ObjectInArea(L, obj) THEN -1
    ELSE AddToReclaim(CountToReclaim(L, seg, Segment_next_object(L, seg, obj)),
                      IF IsGarbage(L, obj) THEN Object_size(L, obj) ELSE 0)

(* The second pass: ret is FALSE when a re-append failed.                  *)
RECURSIVE Relocate(_, _, _)
RECURSIVE AfterRelocate(_, _, _)
AfterRelocate(r, seg, obj) ==
    IF ~r.ret THEN r ELSE Relocate(r.L, seg, Segment_next_object(r.L, seg, obj))

Relocate(L, seg, obj) ==
    IF obj = NULL THEN [L |-> L, ret |-> TRUE]
    ELSE IF L.crashed \/ ~ObjectInArea(L, obj)
         THEN [L |-> [L EXCEPT !.crashed = TRUE], ret |-> FALSE]
    ELSE IF ~IsGarbage(L, obj)
         THEN AfterRelocate(Log_append_nocompact(L, ViewBytes(L, Object_key(L, obj)),
                                                 ViewBytes(L, Object_blob(L, obj))),
                            seg, obj)
    ELSE Relocate(L, seg, Segment_next_object(L, seg, obj))

(* A per-segment compact that reports the occupancy of the segment without *)
(* resetting it.                                                           *)
ReportWithoutReset(moved, seg) ==
    [L |-> moved.L, ret |-> Segment_occupancy(moved.L, seg)]

ResetRelocated(moved, seg) ==
    IF ~moved.ret
    THEN [L |-> moved.L, ret |-> 0]
    ELSE [L |-> Segment_reset(moved.L, seg), ret |-> Segment_occupancy(moved.L, seg)]

CompactCounted(L, seg, to_reclaim) ==
    IF to_reclaim < 0 THEN [L |-> [L EXCEPT !.crashed = TRUE], ret |-> 0]
    ELSE IF to_reclaim = 0 THEN [L |-> L, ret |-> 0]
    ELSE ResetRelocated(Relocate(L, seg, Segment_first_object(L, seg)), seg)

Log_compact_segment(L, seg) ==
    CompactCounted(L, seg, CountToReclaim(L, seg, Segment_first_object(L, seg)))

(* The inner loop of compact(size_t) over the list _segments[idx].  The    *)
(* iterator is at a node of the list ("node", always its first node), at   *)
(* end() or invalidated.  Using an invalidated iterator is undefined; the  *)
(* model stops there (L.crashed).                                          *)
RECURSIVE CompactList(_, _, _, _, _)
RECURSIVE AfterCompactSegment(_, _, _, _, _)
AfterCompactSegment(c, idx, nr_reclaimed, compacted, reclaim_target) ==
    IF nr_reclaimed + c.ret >= reclaim_target
    THEN [L |-> c.L, nr |-> nr_reclaimed + c.ret, compacted |-> compacted]
    ELSE CompactList(c.L, idx, nr_reclaimed + c.ret, compacted, reclaim_target)

EraseFirst(L, idx) ==
    [L EXCEPT !.segments[idx] = Tail(@),
              !.it_st = IF Tail(L.segments[idx]) = << >> THEN "end" ELSE "node"]

CompactList(L, idx, nr_reclaimed, compacted, reclaim_target) ==
    IF L.crashed \/ L.it_st = "end"
    THEN [L |-> L, nr |-> nr_reclaimed, compacted |-> compacted]
    ELSE IF L.it_st = "invalid"
    THEN [L |-> [L EXCEPT !.crashed = TRUE], nr |-> nr_reclaimed, compacted |-> compacted]
    ELSE AfterCompactSegment(Log_compact_segment(EraseFirst(L, idx), Head(L.segments[idx])),
                             idx, nr_reclaimed, compacted \o << Head(L.segments[idx]) >>,
                             reclaim_target)

Begin(L, idx) ==
    [L EXCEPT !.it_idx = idx,
              !.it_st = IF L.segments[idx] = << >> THEN "end" ELSE "node"]

RECURSIVE CompactLists(_, _, _)
RECURSIVE NextList(_, _, _)
NextList(r, i, reclaim_target) ==
    CompactLists([L |-> r.L, nr |-> r.nr, compacted |-> r.compacted], i, reclaim_target)

CompactLists(r, i, reclaim_target) ==
    IF r.L.crashed \/ i >= NrBuckets
    THEN r
    ELSE NextList(CompactList(Begin(r.L, NrBuckets - i - 1), NrBuckets - i - 1,
                              r.nr, r.compacted, reclaim_target),
                  i + 1, reclaim_target)

RECURSIVE PutSegments(_, _)
PutSegments(L, compacted) ==
    IF compacted = << >> \/ L.crashed THEN L
    ELSE PutSegments(Log_put_segment(L, Head(compacted)), Tail(compacted))

PutCompacted(r) ==
    [L |-> PutSegments([r.L EXCEPT !.it_idx = -1, !.it_st = "end"], r.compacted),
     ret |-> r.nr]

Log_compact(L, reclaim_target) ==
    PutCompacted(CompactLists([L |-> L, nr |-> 0, compacted |-> << >>], 0, reclaim_target))

RECURSIVE AppendRestart(_, _, _)
RECURSIVE AfterCompact(_, _, _)
AfterCompact(c, key, blob) ==
    IF c.L.crashed THEN [L |-> c.L, ret |-> FALSE]
    ELSE IF c.ret >= Object_size_of(Len(key), Len(blob)) THEN AppendRestart(c.L, key, blob)
    ELSE [L |-> c.L, ret |-> FALSE]

AfterNocompact(a, key, blob) ==
    IF a.ret \/ a.L.crashed
    THEN a
    ELSE AfterCompact(Log_compact(a.L, Object_size_of(Len(key), Len(blob))), key, blob)

AppendRestart(L, key, blob) == AfterNocompact(Log_append_nocompact(L, key, blob), key, blob)

(* An append without the check of the size against segment_size.          *)
Log_append_unchecked(L, key, blob) == AppendRestart(L, key, blob)

Log_append(L, key, blob) ==
    IF Object_size_of(Len(key), Len(blob)) > segment_size
    THEN [L |-> L, ret |-> FALSE]
    ELSE AppendRestart(L, key, blob)

(* Log::Log: carve the segments and put each on its list.                  *)
RECURSIVE CarveSegments(_, _)
CarveSegments(L, seg_off) ==
    IF seg_off < memory_size
    THEN CarveSegments(Log_put_segment(L, seg_off \div segment_size), seg_off + segment_size)
    ELSE L

Log_Log ==
    CarveSegments([mem |-> [s \in Segs |-> [o \in 1 .. Capacity |-> 0]],
                   pos |-> [s \in Segs |-> 0],
                   segments |-> [idx \in Buckets |-> << >>],
                   cur |-> NoSegment,
                   index |-> << >>,
                   crashed |-> FALSE,
                   it_idx |-> -1,
                   it_st |-> "end",
                   clz0 |-> ClzOfZeroDefault,
                   front |-> TRUE,
                   asked_clz0 |-> FALSE,
                   asked_front |-> FALSE], 0)

(***************************************************************************)
(* The state of one Log and the calls made on it, and the state of one     *)
(* Queue with its producer and its consumer thread.                        *)
(*                                                                         *)
(* calls holds the latest calls, the most recent first; live is the set of *)
(* keys whose latest call, among successful appends and removes, is a      *)
(* successful append; appended is the set of keys append was called with.  *)
(***************************************************************************)
VARIABLES mem, pos, _segments, _current_segment, _index, crashed, nr_calls, calls, live,
          appended,
          _head, _tail, _data, producer, consumer, produced, consumed

logvars ==
    << mem, pos, _segments, _current_segment, _index, crashed, nr_calls, calls, live,
       appended >>

queuevars == << _head, _tail, _data, producer, consumer, produced, consumed >>

(***************************************************************************)
(* The state of the server: the options it was started with and the build, *)
(* the Log of every shard, the responses written to sockets, and the state *)
(* of the reactors: the message queues between the threads, the wakeups    *)
(* every thread owes, the sleeping flags, the wakeup handles and the place *)
(* of every thread in its loop.                                            *)
(*                                                                         *)
(* wire holds the responses in the order they were sent, executed the     *)
(* commands run against a Log in the order they ran; sent_msgs and         *)
(* delivered_msgs hold, for every pair of threads, the commands send_msg   *)
(* accepted and those passed to on_message.  args and carved are the       *)
(* options of the command line and the segments a Log of that              *)
(* configuration carves; received is what the sockets have received.     *)
(***************************************************************************)
VARIABLES _nr_threads, build, hash, _log, wire, executed, nr_cmds, aborted, received,
          _msg_queues, _pending_wakeups, _thread_is_sleeping, _efds, thread,
          sent_msgs, delivered_msgs,
          args, carved

servervars == << _nr_threads, build, hash, _log, wire, executed, nr_cmds, aborted, received >>

reactorvars ==
    << _msg_queues, _pending_wakeups, _thread_is_sleeping, _efds, thread, sent_msgs,
       delivered_msgs >>

configvars == << args, carved >>

(***************************************************************************)
(* The state of one TcpSocket and of its connection: _tx_buf is the        *)
(* transmit buffer; handed holds the bytes the calls of ::send have        *)
(* accepted, in order, and passed the bytes of all messages given to       *)
(* TcpSocket::send; writable tells whether the socket is registered for    *)
(* writable readiness; sock holds what ended the use of the socket, nr_sends *)
(* counts the calls of TcpSocket::send.                                    *)
(***************************************************************************)
VARIABLES _tx_buf, handed, passed, writable, sock, nr_sends

(* The receiving side of one TCP connection: _rx_buffer is the receive     *)
(* buffer of the Connection; requests holds the commands the client has    *)
(* written, unread their bytes that Server::recv has not yet been given,   *)
(* and processed the commands Server::process_one has executed and         *)
(* answered, in order.                                                     *)
VARIABLES _rx_buffer, requests, unread, processed

connvars == << _rx_buffer, requests, unread, processed >>

socketvars == << _tx_buf, handed, passed, writable, sock, nr_sends, connvars >>

systemvars == << servervars, reactorvars, configvars, socketvars >>

vars == << logvars, queuevars, systemvars >>

Keys == {<< 65 >>, << 66 >>}

MoreKeys == Keys \cup {<< 67 >>}

BlobSizes == {3, 23}

(* Every call appends a blob of its own, so that a blob read back tells    *)
(* which call wrote it.                                                    *)
Blob(n) == [i \in 1 .. n |-> nr_calls + 1]

ReclaimTargets == {0, Object_size_of(1, 23)}

(* The Log as the operators above take it, with the outcomes this call     *)
(* gets for __builtin_clz(0) and for the place of a new index node.        *)
TheLog(clz0, front) ==
    [mem |-> mem, pos |-> pos, segments |-> _segments, cur |-> _current_segment,
     index |-> _index, crashed |-> crashed, it_idx |-> -1, it_st |-> "end",
     clz0 |-> clz0, front |-> front, asked_clz0 |-> FALSE, asked_front |-> FALSE]

Log == TheLog(ClzOfZeroDefault, TRUE)

Becomes(L) ==
    /\ mem' = L.mem
    /\ pos' = L.pos
    /\ _segments' = L.segments
    /\ _current_segment' = L.cur
    /\ _index' = L.index
    /\ crashed' = L.crashed

(* _index.find(key)->second, NULL at end().                                *)
IndexedAt(L, key, i) == IF i = 0 THEN NULL ELSE index_at(L, key, i).obj

Indexed(L, key) == IndexedAt(L, key, index_find(L, key))

SizeAt(L, p) == IF p = NULL THEN 0 ELSE Object_size(L, p)

(* A call as calls records it: was is the object the index held for the    *)
(* key when the call was made, had and fresh tell whether the key was in   *)
(* live and outside appended then, pre is the Log a compaction started     *)
(* from.                                                                   *)
NoCall ==
    [op |-> "none", key |-> << >>, blob |-> << >>, size |-> 0, was |-> NULL,
     had |-> FALSE, fresh |-> FALSE, ret |-> FALSE, nr |-> 0, pre |-> << >>]

AppendCall(key, blob) ==
    [NoCall EXCEPT !.op = "append", !.key = key, !.blob = blob,
                   !.size = Object_size_of(Len(key), Len(blob)),
                   !.was = Indexed(Log, key), !.had = key \in live,
                   !.fresh = key \notin appended]

RemoveCall(key) ==
    [NoCall EXCEPT !.op = "remove", !.key = key, !.blob = FindBlob(Log, key),
                   !.size = SizeAt(Log, Indexed(Log, key)),
                   !.was = Indexed(Log, key), !.had = key \in live]

CompactCall(reclaim_target) ==
    [NoCall EXCEPT !.op = "compact", !.size = reclaim_target,
                   !.pre = [mem |-> mem, pos |-> pos, index |-> _index,
                            find |-> [key \in MoreKeys |-> FindBlob(Log, key)]]]

Recorded(call) ==
    calls' = SubSeq(<< call >> \o calls, 1, IF Len(calls) < 4 THEN Len(calls) + 1 ELSE 4)

last == IF calls = << >> THEN NoCall ELSE calls[1]

(* The outcomes to go through for a call: those of the undefined and       *)
(* unspecified steps that the call takes at all.                           *)
OutcomeChoices(r0) ==
    IF r0.L.asked_clz0 \/ r0.L.asked_front
    THEN (IF r0.L.asked_clz0 THEN ClzOfZeroOutcomes ELSE {ClzOfZeroDefault})
         \X (IF r0.L.asked_front THEN BOOLEAN ELSE {TRUE})
    ELSE {}

AppendOutcomes(key, blob) ==
    {Log_append(Log, key, blob)} \cup
    {Log_append(TheLog(c[1], c[2]), key, blob) :
        c \in OutcomeChoices(Log_append(Log, key, blob))}

CompactOutcomes(reclaim_target) ==
    {Log_compact(Log, reclaim_target)} \cup
    {Log_compact(TheLog(c[1], c[2]), reclaim_target) :
        c \in OutcomeChoices(Log_compact(Log, reclaim_target))}

CallAppend(key, blob, max) ==
    /\ ~crashed
    /\ nr_calls < max
    /\ \E r \in AppendOutcomes(key, blob) :
          /\ Becomes(r.L)
          /\ Recorded([AppendCall(key, blob) EXCEPT !.ret = r.ret])
          /\ live' = IF r.ret THEN live \cup {key} ELSE live
    /\ appended' = appended \cup {key}
    /\ nr_calls' = nr_calls + 1
    /\ UNCHANGED << queuevars, systemvars >>

CallRemove(key, max) ==
    /\ ~crashed
    /\ nr_calls < max
    /\ Becomes(Log_remove(Log, key).L)
    /\ Recorded([RemoveCall(key) EXCEPT !.ret = Log_remove(Log, key).ret])
    /\ live' = live \ {key}
    /\ nr_calls' = nr_calls + 1
    /\ UNCHANGED << appended, queuevars, systemvars >>

CallCompact(reclaim_target, max) ==
    /\ ~crashed
    /\ nr_calls < max
    /\ \E r \in CompactOutcomes(reclaim_target) :
          /\ Becomes(r.L)
          /\ Recorded([CompactCall(reclaim_target) EXCEPT !.nr = r.ret])
    /\ nr_calls' = nr_calls + 1
    /\ UNCHANGED << live, appended, queuevars, systemvars >>

(* The test's append(K, V) after remove(K): the key and the blob of a      *)
(* recorded remove are appended again.                                     *)
CallAppendAgain(max) ==
    \E i \in 1 .. Len(calls) :
        /\ calls[i].op = "remove"
        /\ calls[i].ret
        /\ calls[i].blob \notin {Absent, Wild}
        /\ CallAppend(calls[i].key, calls[i].blob, max)

LogInit ==
    /\ mem = Log_Log.mem
    /\ pos = Log_Log.pos
    /\ _segments = Log_Log.segments
    /\ _current_segment = Log_Log.cur
    /\ _index = Log_Log.index
    /\ crashed = Log_Log.crashed
    /\ nr_calls = 0
    /\ calls = << >>
    /\ live = {}
    /\ appended = {}

(***************************************************************************)
(* Queue<int, N> with the producer and the consumer of the test: the       *)
(* producer emplaces 0, 1, 2, ... and retries until try_to_emplace         *)
(* succeeds; the consumer calls front, reads the item when there is one    *)
(* and pops it.  Every load and store of an atomic, and every access to a  *)
(* slot, is one step.  produced is the sequence of values emplaced with    *)
(* success, consumed the sequence of values read through front().          *)
(***************************************************************************)
N == 3
MaxItems == 4

(* The value of a slot that holds no constructed T.                        *)
Dead == -1

Slots == 0 .. (N - 1)

(* A faulty wrap-around, one slot early.                                   *)
NextIndexWrapsEarly(i) == IF i + 2 >= N THEN 0 ELSE i + 1

NextIndex(i) == IF i + 1 = N THEN 0 ELSE i + 1

(* A faulty try_to_emplace that never finds the queue full.                *)
Queue_is_never_full(next_tail, head) == FALSE

(* A faulty try_to_emplace that always finds the queue full.              *)
Queue_is_always_full(next_tail, head) == TRUE

Queue_is_full(next_tail, head) == next_tail = head

(* A faulty front that never finds the queue empty.                       *)
Queue_is_never_empty(tail, head) == FALSE

Queue_is_empty(tail, head) == tail = head

Queue_empty == Queue_is_empty(_tail, _head)

Idle == [pc |-> "idle", op |-> "none", head |-> 0, tail |-> 0, next |-> 0, ret |-> FALSE]

QueueInit ==
    /\ _head = 0
    /\ _tail = 0
    /\ _data = [i \in Slots |-> Dead]
    /\ producer = Idle
    /\ consumer = Idle
    /\ produced = << >>
    /\ consumed = << >>

try_to_emplace_load_tail ==
    /\ producer.pc = "idle"
    /\ Len(produced) < MaxItems
    /\ producer' = [Idle EXCEPT !.pc = "load_head", !.op = "try_to_emplace",
                                !.tail = _tail, !.next = NextIndex(_tail)]
    /\ UNCHANGED << _head, _tail, _data, consumer, produced, consumed, logvars, systemvars >>

try_to_emplace_load_head ==
    /\ producer.pc = "load_head"
    /\ producer' = [producer EXCEPT !.head = _head,
                                    !.pc = IF Queue_is_full(producer.next, _head)
                                           THEN "idle" ELSE "write",
                                    !.ret = FALSE]
    /\ UNCHANGED << _head, _tail, _data, consumer, produced, consumed, logvars, systemvars >>

try_to_emplace_write ==
    /\ producer.pc = "write"
    /\ _data' = [_data EXCEPT ![producer.tail] = Len(produced)]
    /\ producer' = [producer EXCEPT !.pc = "store_tail"]
    /\ UNCHANGED << _head, _tail, consumer, produced, consumed, logvars, systemvars >>

try_to_emplace_store_tail ==
    /\ producer.pc = "store_tail"
    /\ _tail' = producer.next
    /\ produced' = Append(produced, Len(produced))
    /\ producer' = [producer EXCEPT !.pc = "idle", !.ret = TRUE]
    /\ UNCHANGED << _head, _data, consumer, consumed, logvars, systemvars >>

(* empty() as the test calls it, from the producing thread.                *)
empty_load_head ==
    /\ producer.pc = "idle"
    /\ producer' = [Idle EXCEPT !.pc = "empty_tail", !.op = "empty", !.head = _head]
    /\ UNCHANGED << _head, _tail, _data, consumer, produced, consumed, logvars, systemvars >>

empty_load_tail ==
    /\ producer.pc = "empty_tail"
    /\ producer' = [producer EXCEPT !.pc = "idle", !.tail = _tail,
                                    !.ret = Queue_is_empty(_tail, producer.head)]
    /\ UNCHANGED << _head, _tail, _data, consumer, produced, consumed, logvars, systemvars >>

front_load_head ==
    /\ consumer.pc = "idle"
    /\ consumer' = [Idle EXCEPT !.pc = "load_tail", !.op = "front", !.head = _head]
    /\ UNCHANGED << _head, _tail, _data, producer, produced, consumed, logvars, systemvars >>

(* ret is TRUE when front() returns &_data[head], FALSE for nullptr.       *)
front_load_tail ==
    /\ consumer.pc = "load_tail"
    /\ consumer' = [consumer EXCEPT !.tail = _tail,
                                    !.pc = IF Queue_is_empty(_tail, consumer.head)
                                           THEN "idle" ELSE "item",
                                    !.ret = ~Queue_is_empty(_tail, consumer.head)]
    /\ UNCHANGED << _head, _tail, _data, producer, produced, consumed, logvars, systemvars >>

read_item ==
    /\ consumer.pc = "item"
    /\ consumed' = Append(consumed, _data[consumer.head])
    /\ consumer' = [consumer EXCEPT !.pc = "pop"]
    /\ UNCHANGED << _head, _tail, _data, producer, produced, logvars, systemvars >>

pop_load_head ==
    /\ consumer.pc = "pop"
    /\ consumer' = [consumer EXCEPT !.pc = "destroy", !.op = "pop", !.head = _head,
                                    !.next = NextIndex(_head)]
    /\ UNCHANGED << _head, _tail, _data, producer, produced, consumed, logvars, systemvars >>

pop_destroy ==
    /\ consumer.pc = "destroy"
    /\ _data' = [_data EXCEPT ![consumer.head] = Dead]
    /\ consumer' = [consumer EXCEPT !.pc = "store_head"]
    /\ UNCHANGED << _head, _tail, producer, produced, consumed, logvars, systemvars >>

pop_store_head ==
    /\ consumer.pc = "store_head"
    /\ _head' = consumer.next
    /\ consumer' = [consumer EXCEPT !.pc = "idle"]
    /\ UNCHANGED << _tail, _data, producer, produced, consumed, logvars, systemvars >>

(***************************************************************************)
(* Server and Reactor.                                                     *)
(*                                                                         *)
(* Every shard has a Log of the configuration above.  A command is         *)
(* [id, thread_id, op, key, blob, req]: id numbers the commands in the     *)
(* order they were received, thread_id is the shard that received it, blob *)
(* is Absent for std::nullopt, and req holds the socket, named after the   *)
(* shard that owns it, and the request_id and sequence_num of a datagram,  *)
(* << >> for std::nullopt.  A message queue is its items, oldest first,    *)
(* and the number of the newest of them whose store to _tail, a release    *)
(* store, has not yet become visible to the consumer.                      *)
(***************************************************************************)
Threads == {0, 1}

ThreadCounts == {1, 2}

(* The values MurmurHash3_x86_32 may give for a key.                       *)
HashValues == {6, 7}

(* Whether assert() is compiled out, and whether char is signed.           *)
Builds == [NDEBUG : BOOLEAN, char_is_signed : BOOLEAN]

MsgQueueSize == 3

(* A router that keeps every key on the shard that received it.            *)
Server_find_target_receiver(t, key) == t

Server_find_target(t, key) == IF _nr_threads = 1 THEN t ELSE hash[key] % _nr_threads

(* The bytes push_back stores for the two halves of a 16-bit value.        *)
BigEndian(x) == << (x \div 256) % 256, x % 256 >>

make_response_frame(req) ==
    IF req.request_id = << >>
    THEN << >>
    ELSE BigEndian(req.request_id[1]) \o BigEndian(req.sequence_num[1])
         \o BigEndian(1) \o BigEndian(0)

(* A response as the bytes of its frame and the pieces of its text.        *)
Response(req, text, key, value) ==
    [frame |-> make_response_frame(req), text |-> text, key |-> key,
     size |-> Len(value), value |-> value]

StoredResponse(req, ret) ==
    Response(req,
             IF ret THEN "STORED\r\n"
             ELSE "SERVER_ERROR out of memory storing object\r\n", << >>, << >>)

ValueResponse(req, key, search) ==
    IF search # Absent
    THEN Response(req, "VALUE <key> 0 <size>\r\n<value>\r\nEND\r\n", key, search)
    ELSE Response(req, "END\r\n", << >>, << >>)

(* req.sock->send(...) by thread t for command id.                         *)
Send(id, req, t, response) == [id |-> id, sock |-> req.sock, by |-> t, response |-> response]

(* The Log a call leaves, ready for the next call.                         *)
Settled(L) ==
    [L EXCEPT !.clz0 = ClzOfZeroDefault, !.front = TRUE, !.asked_clz0 = FALSE,
              !.asked_front = FALSE, !.it_idx = -1, !.it_st = "end"]

(* _log.append(key, blob) with every outcome of its undefined steps.       *)
Server_append(L, key, blob) ==
    {Log_append(L, key, blob)} \cup
    {Log_append([L EXCEPT !.clz0 = c[1], !.front = c[2]], key, blob) :
        c \in OutcomeChoices(Log_append(L, key, blob))}

(* What a handler of thread t does: the Log it leaves, the responses it    *)
(* sends, the commands it runs against its Log, and the messages it hands  *)
(* to assert(_reactor->send_msg(...)).                                     *)
Handled(L, sends, runs, msgs) == [log |-> L, wire |-> sends, executed |-> runs, msgs |-> msgs]

Ran(cmd, t, ret, value) ==
    [id |-> cmd.id, op |-> cmd.op, key |-> cmd.key, by |-> t, origin |-> cmd.thread_id,
     ret |-> ret, value |-> value]

Server_process_one(t, cmd, state) ==
    IF state = "Error"
    THEN {Handled(_log[t], << Send(cmd.id, cmd.req, t, Response(cmd.req, "ERROR\r\n", << >>, << >>)) >>,
                  << >>, << >>)}
    ELSE IF Server_find_target(t, cmd.key) # t
    THEN {Handled(_log[t], << >>, << >>, << [to |-> Server_find_target(t, cmd.key), cmd |-> cmd] >>)}
    ELSE IF state = "CmdSet"
    THEN {Handled(Settled(r.L),
                  << Send(cmd.id, cmd.req, t, StoredResponse(cmd.req, r.ret)) >>,
                  << Ran(cmd, t, r.ret, cmd.blob) >>, << >>) :
             r \in Server_append(_log[t], cmd.key, cmd.blob)}
    ELSE {Handled(_log[t],
                  << Send(cmd.id, cmd.req, t,
                          ValueResponse(cmd.req, cmd.key, FindBlob(_log[t], cmd.key))) >>,
                  << Ran(cmd, t, TRUE, FindBlob(_log[t], cmd.key)) >>, << >>)}

Server_on_message(t, cmd) ==
    CASE cmd.op = "Set" ->
           {Handled(Settled(r.L), << >>, << Ran(cmd, t, r.ret, cmd.blob) >>,
                    << [to |-> cmd.thread_id,
                        cmd |-> [cmd EXCEPT !.op = IF r.ret THEN "SetOk"
                                                   ELSE "SetErrorOutOfMemory"]] >>) :
               r \in Server_append(_log[t], cmd.key, cmd.blob)}
      [] cmd.op \in {"SetOk", "SetErrorOutOfMemory"} ->
           {Handled(_log[t],
                    << Send(cmd.id, cmd.req, t, StoredResponse(cmd.req, cmd.op = "SetOk")) >>,
                    << >>, << >>)}
      [] cmd.op = "Get" ->
           {Handled(_log[t],
                    << Send(cmd.id, cmd.req, t,
                            ValueResponse(cmd.req, cmd.key, FindBlob(_log[t], cmd.key))) >>,
                    << Ran(cmd, t, TRUE, FindBlob(_log[t], cmd.key)) >>,
                    << [to |-> cmd.thread_id,
                        cmd |-> [cmd EXCEPT !.op = "GetOk",
                                            !.blob = FindBlob(_log[t], cmd.key)]] >>)}
      [] cmd.op = "GetOk" -> {Handled(_log[t], << >>, << >>, << >>)}

(* A send_msg that puts the message in front of those in the queue.        *)
Reactor_send_msg_in_front(Q, t, remote_id, msg) ==
    IF Len(Q[remote_id][t].items) = MsgQueueSize - 1
    THEN [ret |-> FALSE, sent |-> FALSE, thrown |-> FALSE, q |-> Q]
    ELSE [ret |-> TRUE, sent |-> TRUE, thrown |-> FALSE,
          q |-> [Q EXCEPT ![remote_id][t] =
                    [items |-> << msg >> \o @.items, hidden |-> @.hidden + 1]]]

(* A send_msg that sets the bit of _pending_wakeups before it tries the     *)
(* queue.                                                                  *)
Reactor_send_msg_pending_first(Q, t, remote_id, msg) ==
    IF Len(Q[remote_id][t].items) = MsgQueueSize - 1
    THEN [ret |-> FALSE, sent |-> TRUE, thrown |-> FALSE, q |-> Q]
    ELSE [ret |-> TRUE, sent |-> TRUE, thrown |-> FALSE,
          q |-> [Q EXCEPT ![remote_id][t] =
                    [items |-> Append(@.items, msg), hidden |-> @.hidden + 1]]]

(* A send_msg of reactors that share one queue for every consumer.          *)
Reactor_send_msg_shared(Q, t, remote_id, msg) ==
    IF remote_id = t
    THEN [ret |-> FALSE, sent |-> FALSE, thrown |-> TRUE, q |-> Q]
    ELSE IF Len(Q[remote_id][0].items) = MsgQueueSize - 1
    THEN [ret |-> FALSE, sent |-> FALSE, thrown |-> FALSE, q |-> Q]
    ELSE [ret |-> TRUE, sent |-> TRUE, thrown |-> FALSE,
          q |-> [Q EXCEPT ![remote_id][0] =
                    [items |-> Append(@.items, msg), hidden |-> @.hidden + 1]]]

(* Reactor::send_msg from thread t, with Queue::try_to_emplace as one      *)
(* step.  A message to the thread itself throws std::invalid_argument,     *)
(* which nothing catches.                                                  *)
Reactor_send_msg(Q, t, remote_id, msg) ==
    IF remote_id = t
    THEN [ret |-> FALSE, sent |-> FALSE, thrown |-> TRUE, q |-> Q]
    ELSE IF Len(Q[remote_id][t].items) = MsgQueueSize - 1
    THEN [ret |-> FALSE, sent |-> FALSE, thrown |-> FALSE, q |-> Q]
    ELSE [ret |-> TRUE, sent |-> TRUE, thrown |-> FALSE,
          q |-> [Q EXCEPT ![remote_id][t] =
                    [items |-> Append(@.items, msg), hidden |-> @.hidden + 1]]]

(* assert(_reactor->send_msg(...)): with NDEBUG the call is not compiled,  *)
(* without it a false result aborts the process.                           *)
assert_send_msg(Q, t, msgs) ==
    IF msgs = << >> \/ build.NDEBUG
    THEN [ret |-> TRUE, sent |-> FALSE, thrown |-> FALSE, q |-> Q]
    ELSE Reactor_send_msg(Q, t, msgs[1].to, msgs[1].cmd)

(* The stores of thread t to the tails of its queues become visible.       *)
Flushed(Q, t) == [to \in Threads |-> [Q[to] EXCEPT ![t].hidden = 0]]

Visible(q) == SubSeq(q.items, 1, Len(q.items) - q.hidden)

Reactor_has_messages(t) ==
    \E other \in 0 .. (_nr_threads - 1) : other # t /\ Visible(_msg_queues[t][other]) # << >>

PopFront(Q, t, other) == [Q EXCEPT ![t][other].items = Tail(@)]

(* The effects on the state of a handler h of thread t whose message, if   *)
(* any, had the result s; Q are the queues the step leaves.                *)
Effects(t, h, s, Q) ==
    /\ _log' = [_log EXCEPT ![t] = h.log]
    /\ wire' = wire \o h.wire
    /\ executed' = executed \o h.executed
    /\ aborted' = ~s.ret
    /\ _msg_queues' = Q
    /\ _pending_wakeups' =
           IF s.sent THEN [_pending_wakeups EXCEPT ![t] = @ \cup {h.msgs[1].to}]
           ELSE _pending_wakeups
    /\ sent_msgs' =
           IF s.sent THEN [sent_msgs EXCEPT ![h.msgs[1].to][t] = Append(@, h.msgs[1].cmd.id)]
           ELSE sent_msgs

Running(t) == _nr_threads > 0 /\ t < _nr_threads /\ ~aborted

At(t, pc) == [thread[t] EXCEPT !.pc = pc, !.id = 0, !.other = 0]

(* The queue poll_messages of thread t looks at after the queues below     *)
(* from, nr_threads when there is none.                                    *)
NextOther(t, from, nr_threads) ==
    IF \E other \in from .. (nr_threads - 1) : other # t
    THEN CHOOSE other \in from .. (nr_threads - 1) :
             other # t /\ \A o \in from .. (other - 1) : o = t
    ELSE nr_threads

(* poll_messages of thread t, in state th, goes on with the queues from    *)
(* from on, or returns has_messages to the loop.                           *)
PollFrom(th, t, from, nr_threads) ==
    IF NextOther(t, from, nr_threads) = nr_threads
    THEN [th EXCEPT !.pc = IF th.has_messages THEN "io" ELSE "sleep", !.other = 0]
    ELSE [th EXCEPT !.pc = "poll_messages", !.other = NextOther(t, from, nr_threads)]

(* Thread t starts an iteration of its loop with these wakeups pending.    *)
StartLoop(t, pending, nr_threads) ==
    IF pending = {}
    THEN PollFrom([At(t, "poll_messages") EXCEPT !.has_messages = FALSE, !.nr = 0],
                  t, 0, nr_threads)
    ELSE At(t, "wake_up_pending")

(* main: the threads of the server start their loops.                      *)
server_main(nr_threads, h, b) ==
    /\ _nr_threads = 0
    /\ _nr_threads' = nr_threads
    /\ hash' = h
    /\ build' = b
    /\ thread' = [t \in Threads |-> IF t < nr_threads THEN StartLoop(t, {}, nr_threads)
                                     ELSE thread[t]]
    /\ UNCHANGED << _log, wire, executed, nr_cmds, aborted, received, _msg_queues,
                    _pending_wakeups, _thread_is_sleeping, _efds, sent_msgs,
                    delivered_msgs, configvars, socketvars, logvars, queuevars >>

Pending(t) == {id \in _pending_wakeups[t] : id >= thread[t].id}

Lowest(ids) == CHOOSE id \in ids : \A other \in ids : id <= other

(* Reactor::wake_up_pending, one step for every load and store of a        *)
(* sleeping flag and for every wake_up.  An x86 store with                 *)
(* memory_order_seq_cst drains the store buffer of its thread.             *)
Reactor_wake_up_pending(t) ==
    /\ Running(t)
    /\ \/ /\ thread[t].pc = "wake_up_pending"
          /\ _thread_is_sleeping[Lowest(Pending(t))]
          /\ thread' = [thread EXCEPT ![t].pc = "store", ![t].id = Lowest(Pending(t))]
          /\ UNCHANGED << _pending_wakeups, _thread_is_sleeping, _efds, _msg_queues >>
       \/ /\ thread[t].pc = "wake_up_pending"
          /\ ~_thread_is_sleeping[Lowest(Pending(t))]
          /\ Pending(t) # {Lowest(Pending(t))}
          /\ thread' = [thread EXCEPT ![t].id = Lowest(Pending(t)) + 1]
          /\ UNCHANGED << _pending_wakeups, _thread_is_sleeping, _efds, _msg_queues >>
       \/ /\ thread[t].pc = "wake_up_pending"
          /\ ~_thread_is_sleeping[Lowest(Pending(t))]
          /\ Pending(t) = {Lowest(Pending(t))}
          /\ _pending_wakeups' = [_pending_wakeups EXCEPT ![t] = {}]
          /\ thread' = [thread EXCEPT ![t] = StartLoop(t, {}, _nr_threads)]
          /\ UNCHANGED << _thread_is_sleeping, _efds, _msg_queues >>
       \/ /\ thread[t].pc = "store"
          /\ _thread_is_sleeping' = [_thread_is_sleeping EXCEPT ![thread[t].id] = FALSE]
          /\ _msg_queues' = Flushed(_msg_queues, t)
          /\ thread' = [thread EXCEPT ![t].pc = "wake_up"]
          /\ UNCHANGED << _pending_wakeups, _efds >>
       \/ /\ thread[t].pc = "wake_up"
          /\ Pending(t) # {thread[t].id}
          /\ _efds' = [_efds EXCEPT ![thread[t].id] = 1]
          /\ thread' = [thread EXCEPT ![t].pc = "wake_up_pending", ![t].id = @ + 1]
          /\ UNCHANGED << _pending_wakeups, _thread_is_sleeping, _msg_queues >>
       \/ /\ thread[t].pc = "wake_up"
          /\ Pending(t) = {thread[t].id}
          /\ _efds' = [_efds EXCEPT ![thread[t].id] = 1]
          /\ _pending_wakeups' = [_pending_wakeups EXCEPT ![t] = {}]
          /\ thread' = [thread EXCEPT ![t] = StartLoop(t, {}, _nr_threads)]
          /\ UNCHANGED << _thread_is_sleeping, _msg_queues >>
    /\ UNCHANGED << servervars, sent_msgs, delivered_msgs, configvars, socketvars, logvars, queuevars >>

(* on_message for the front of the queue from other, then pop.             *)
Delivered(t, other, cmd, h, s) ==
    /\ Effects(t, h, s, PopFront(s.q, t, other))
    /\ delivered_msgs' = [delivered_msgs EXCEPT ![t][other] = Append(@, cmd.id)]
    /\ thread' = [thread EXCEPT ![t].has_messages = TRUE, ![t].nr = @ + 1]

(* Reactor::poll_messages, one step for every call of Queue::front; its    *)
(* result tells the loop whether to look for I/O without blocking.         *)
Reactor_poll_messages(t) ==
    /\ Running(t)
    /\ thread[t].pc = "poll_messages"
    /\ \/ /\ Visible(_msg_queues[t][thread[t].other]) = << >>
          /\ thread' = [thread EXCEPT ![t] = PollFrom(@, t, @.other + 1, _nr_threads)]
          /\ UNCHANGED << _log, wire, executed, aborted, _msg_queues, _pending_wakeups,
                          sent_msgs, delivered_msgs >>
       \/ /\ Visible(_msg_queues[t][thread[t].other]) # << >>
          /\ \E h \in Server_on_message(t, Head(_msg_queues[t][thread[t].other].items)) :
                Delivered(t, thread[t].other, Head(_msg_queues[t][thread[t].other].items), h,
                          assert_send_msg(_msg_queues, t, h.msgs))
    /\ UNCHANGED << _nr_threads, build, hash, nr_cmds, received, _thread_is_sleeping, _efds,
                    configvars, socketvars, logvars, queuevars >>

(* The rest of the loop of a reactor: with no message polled the thread    *)
(* marks itself sleeping, looks at its queues again and blocks until its   *)
(* wakeup handle is written or a socket is ready; with messages polled it  *)
(* looks for ready sockets without blocking.  Here no socket is ready, and *)
(* the thread starts over.                                                 *)
Reactor_run(t) ==
    /\ Running(t)
    /\ \/ /\ thread[t].pc = "sleep"
          /\ _thread_is_sleeping' = [_thread_is_sleeping EXCEPT ![t] = TRUE]
          /\ _msg_queues' = Flushed(_msg_queues, t)
          /\ thread' = [thread EXCEPT ![t].pc = "has_messages"]
          /\ UNCHANGED _efds
       \/ /\ thread[t].pc = "has_messages"
          /\ Reactor_has_messages(t)
          /\ _thread_is_sleeping' = [_thread_is_sleeping EXCEPT ![t] = FALSE]
          /\ thread' = [thread EXCEPT ![t] = StartLoop(t, _pending_wakeups[t], _nr_threads)]
          /\ UNCHANGED << _efds, _msg_queues >>
       \/ /\ thread[t].pc = "has_messages"
          /\ ~Reactor_has_messages(t)
          /\ thread' = [thread EXCEPT ![t].pc = "blocked"]
          /\ UNCHANGED << _efds, _msg_queues, _thread_is_sleeping >>
       \/ /\ thread[t].pc = "blocked"
          /\ _efds[t] = 1
          /\ _efds' = [_efds EXCEPT ![t] = 0]
          /\ _thread_is_sleeping' = [_thread_is_sleeping EXCEPT ![t] = FALSE]
          /\ thread' = [thread EXCEPT ![t] = StartLoop(t, _pending_wakeups[t], _nr_threads)]
          /\ UNCHANGED _msg_queues
       \/ /\ thread[t].pc = "io"
          /\ _efds' = [_efds EXCEPT ![t] = 0]
          /\ thread' = [thread EXCEPT ![t] = StartLoop(t, _pending_wakeups[t], _nr_threads)]
          /\ UNCHANGED << _msg_queues, _thread_is_sleeping >>
    /\ UNCHANGED << servervars, _pending_wakeups, sent_msgs, delivered_msgs, configvars, socketvars,
                    logvars, queuevars >>

(* A store to the tail of a queue of thread t leaves its store buffer.     *)
Reactor_flush(t) ==
    /\ Running(t)
    /\ \E to \in Threads : _msg_queues[to][t].hidden > 0
    /\ _msg_queues' = Flushed(_msg_queues, t)
    /\ UNCHANGED << servervars, _pending_wakeups, _thread_is_sleeping, _efds, thread,
                    sent_msgs, delivered_msgs, configvars, socketvars, logvars, queuevars >>

(* The blob of a set command, its own for every command.                   *)
Value(n) == [i \in 1 .. n |-> nr_cmds + 1]

NoRequestId == [request_id |-> << >>, sequence_num |-> << >>]

Command(t, state, key, blob, frame) ==
    [id |-> nr_cmds + 1, thread_id |-> t,
     op |-> IF state = "CmdSet" THEN "Set" ELSE "Get",
     key |-> IF state = "Error" THEN << >> ELSE key,
     blob |-> IF state = "CmdSet" THEN blob ELSE Absent,
     req |-> [sock |-> t, request_id |-> frame.request_id,
              sequence_num |-> frame.sequence_num]]

(* In place of the header of a datagram, for what a TcpSocket receives.    *)
Stream == << -1 >>

(* What a socket of thread t receives: a command in the state the parser   *)
(* ends in, after the header msg when it is a datagram.                    *)
Received(t, state, key, msg) ==
    [id |-> nr_cmds + 1, sock |-> t, state |-> state,
     key |-> IF state = "Error" THEN << >> ELSE key, msg |-> msg]

(* Thread t leaves its wait for a ready socket.                            *)
Ready(t) ==
    /\ Running(t)
    /\ thread[t].pc \in {"io", "blocked"}
    /\ _efds' = [_efds EXCEPT ![t] = 0]
    /\ _thread_is_sleeping' = [_thread_is_sleeping EXCEPT ![t] = FALSE]

(* The callback of a ready socket of thread t has Server::process_one      *)
(* parse one complete command.                                             *)
Processed(t, h, s) ==
    /\ Effects(t, h, s, s.q)
    /\ nr_cmds' = nr_cmds + 1
    /\ thread' = [thread EXCEPT ![t] = StartLoop(t, _pending_wakeups'[t], _nr_threads)]
    /\ UNCHANGED << _nr_threads, build, hash, delivered_msgs,
                    configvars, socketvars, logvars, queuevars >>

(* Server::recv of a TcpSocket with one complete command in msg.           *)
Server_recv(t, state, key, n, max) ==
    /\ Ready(t)
    /\ nr_cmds < max
    /\ \E cmd \in {Command(t, state, key, Value(n), NoRequestId)} :
          \E h \in Server_process_one(t, cmd, state) :
             Processed(t, h, assert_send_msg(_msg_queues, t, h.msgs))
    /\ received' = Append(received, Received(t, state, key, Stream))

(* A char as the int it is promoted to.                                    *)
CharValue(c) == IF build.char_is_signed /\ c >= 128 THEN c - 256 ELSE c

(* a | b on the lowest bits of two's complement.                           *)
RECURSIVE BitOr(_, _, _)
BitOr(a, b, bits) ==
    IF bits = 0 THEN 0
    ELSE (IF a % 2 = 1 \/ b % 2 = 1 THEN 1 ELSE 0) + 2 * BitOr(a \div 2, b \div 2, bits - 1)

(* (msg[i] << 8) | msg[i + 1] stored to a uint16_t.                        *)
ParseU16(c0, c1) == BitOr((CharValue(c0) * 256) % 65536, CharValue(c1) % 65536, 16)

UDPFrame(msg) ==
    [request_id |-> << ParseU16(msg[1], msg[2]) >>,
     sequence_num |-> << ParseU16(msg[3], msg[4]) >>]

sizeof_UDPFrame == 8

(* Server::recv of a UdpSocket: msg is the header of the datagram, which   *)
(* holds one complete command after it.                                    *)
Server_recv_udp(t, msg, state, key, n, max) ==
    /\ Ready(t)
    /\ nr_cmds < max
    /\ received' = Append(received, Received(t, state, key, msg))
    /\ IF Len(msg) < sizeof_UDPFrame
       THEN /\ nr_cmds' = nr_cmds + 1
            /\ thread' = [thread EXCEPT ![t] = StartLoop(t, _pending_wakeups[t], _nr_threads)]
            /\ UNCHANGED << _nr_threads, build, hash, _log, wire, executed, aborted,
                            _msg_queues, _pending_wakeups, sent_msgs, delivered_msgs,
                            configvars, socketvars, logvars, queuevars >>
       ELSE \E cmd \in {Command(t, state, key, Value(n), UDPFrame(msg))} :
               \E h \in Server_process_one(t, cmd, state) :
                  Processed(t, h, assert_send_msg(_msg_queues, t, h.msgs))

(* The bytes of a megabyte, the unit of the options.                       *)
MB == 1048576

NoArgs == [memory_limit |-> 0, segment_size |-> 0, nr_threads |-> 0]

(* parse_cmd_line with the options -m, -s and -t: it throws when the       *)
(* memory limit is not divisible by the number of threads.                 *)
parse_cmd_line(memory_limit, seg_size, nr_threads) ==
    /\ args = NoArgs
    /\ memory_limit % nr_threads = 0
    /\ args' = [memory_limit |-> memory_limit, segment_size |-> seg_size,
                nr_threads |-> nr_threads]
    /\ UNCHANGED << carved, servervars, reactorvars, socketvars, logvars, queuevars >>

(* The LogConfig server_thread builds from the options.                    *)
LogConfig(a) ==
    [segment_size |-> a.segment_size * MB,
     memory_size |-> (a.memory_limit * MB) \div a.nr_threads]

(* The segments the constructor of Log places, as offsets from memory_ptr: *)
(* one at every seg_off = 0, seg_size, 2 * seg_size, ... below mem_size.   *)
Log_Log_segments(config) ==
    {[start |-> k * config.segment_size, end |-> (k + 1) * config.segment_size] :
        k \in 0 .. ((config.memory_size - 1) \div config.segment_size)}

(* server_thread of thread thread_id, up to the construction of its Log.   *)
server_thread(thread_id) ==
    /\ args # NoArgs
    /\ thread_id < args.nr_threads
    /\ \A c \in carved : c.thread_id # thread_id
    /\ carved' = carved \cup
           {[thread_id |-> thread_id, config |-> LogConfig(args),
             segments |-> Log_Log_segments(LogConfig(args))]}
    /\ UNCHANGED << args, servervars, reactorvars, socketvars, logvars, queuevars >>

(***************************************************************************)
(* TcpSocket::send and TcpSocket::on_pollout.  The outcome of a call of     *)
(* ::send with len bytes is [nr, errno]: nr in 1 .. len with no errno, or   *)
(* nr = -1 with EAGAIN (which stands for EWOULDBLOCK too), ECONNRESET      *)
(* (which stands for EPIPE too) or another errno, here ENOBUFS.            *)
(***************************************************************************)
Written(nr) == [nr |-> nr, errno |-> "none"]

Failed(errno) == [nr |-> -1, errno |-> errno]

Errnos == {"EAGAIN", "ECONNRESET", "ENOBUFS"}

SendOutcomes(len) == {Written(nr) : nr \in 1 .. len} \cup {Failed(e) : e \in Errnos}

(* _tx_buf.insert(_tx_buf.end(), first, last) with first = msg + from and  *)
(* last = msg + to.  With last before first the range is not valid and the *)
(* call is undefined: libstdc++ takes the distance for a huge size and     *)
(* throws std::length_error, libc++ inserts nothing.                       *)
ReversedRangeOutcomes == {"length_error", "nothing"}

insert_at_end(T, msg, from, to, reversed) ==
    IF from <= to
    THEN [T EXCEPT !.buf = @ \o SubSeq(msg, from + 1, to)]
    ELSE IF reversed = "length_error" THEN [T EXCEPT !.sock = "thrown"] ELSE T

Returned(T, ret) == [T |-> T, ret |-> ret]

Accepted(T, bytes) == [T EXCEPT !.handed = @ \o bytes]

TcpSocket_send(T, msg, out, reversed) ==
    IF T.buf # << >>
    THEN Returned(insert_at_end(T, msg, 0, Len(msg), reversed), FALSE)
    ELSE IF out.nr < 0 /\ out.errno = "ECONNRESET"
    THEN Returned([T EXCEPT !.sock = "reset"], TRUE)
    ELSE IF out.nr < 0 /\ out.errno = "EAGAIN"
    THEN Returned(insert_at_end(T, msg, 0, Len(msg), reversed), FALSE)
    ELSE IF out.nr < 0
    THEN Returned([T EXCEPT !.sock = "thrown"], FALSE)
    ELSE IF out.nr < Len(msg)
    THEN Returned(insert_at_end(Accepted(T, SubSeq(msg, 1, out.nr)), msg, out.nr,
                                Len(msg) - out.nr, reversed), FALSE)
    ELSE Returned(Accepted(T, msg), TRUE)

TcpSocket_on_pollout(T, out) ==
    IF T.buf = << >>
    THEN Returned(T, TRUE)
    ELSE IF out.nr < 0 /\ out.errno = "ECONNRESET"
    THEN Returned([T EXCEPT !.sock = "reset"], TRUE)
    ELSE IF out.nr < 0 /\ out.errno = "EAGAIN"
    THEN Returned(T, FALSE)
    ELSE IF out.nr < 0
    THEN Returned([T EXCEPT !.sock = "thrown"], FALSE)
    ELSE Returned([Accepted(T, SubSeq(T.buf, 1, out.nr)) EXCEPT
                       !.buf = SubSeq(T.buf, out.nr + 1, Len(T.buf))],
                  out.nr = Len(T.buf))

TheSocket == [buf |-> _tx_buf, handed |-> handed, sock |-> sock]

SocketBecomes(T) ==
    /\ _tx_buf' = T.buf
    /\ handed' = T.handed
    /\ sock' = T.sock

(* req.sock->send(response.c_str(), response.size(), req.dst) as           *)
(* Server::process_one and Server::on_message call it: what send returns   *)
(* is not looked at.                                                       *)
Server_respond(response, out, reversed, max) ==
    /\ sock = "open"
    /\ nr_sends < max
    /\ SocketBecomes(TcpSocket_send(TheSocket, response, out, reversed).T)
    /\ passed' = passed \o response
    /\ nr_sends' = nr_sends + 1
    /\ UNCHANGED << writable, connvars, servervars, reactorvars, configvars, logvars,
                    queuevars >>

(* A call of on_pollout on the socket.                                     *)
CallOnPollout(out) ==
    /\ sock = "open"
    /\ SocketBecomes(TcpSocket_on_pollout(TheSocket, out).T)
    /\ UNCHANGED << passed, writable, nr_sends, connvars, servervars, reactorvars, configvars,
                    logvars, queuevars >>

SocketInit ==
    /\ _tx_buf = << >>
    /\ handed = << >>
    /\ passed = << >>
    /\ writable = FALSE
    /\ sock = "open"
    /\ nr_sends = 0
    /\ _rx_buffer = << >>
    /\ requests = << >>
    /\ unread = << >>
    /\ processed = << >>

(***************************************************************************)
(* Server::recv of a TcpSocket, on the bytes of the stream.                *)
(*                                                                         *)
(* A byte is its character code.  The header line of a command is written  *)
(* with one byte for the name of the command and the blank after it, one   *)
(* for the key and, for set, one digit for the size of the blob in place   *)
(* of the flags, the expiration time and the size; it ends with CR LF.     *)
(***************************************************************************)
CR == 13
LF == 10

SetName == 115
GetName == 103
Digit0 == 48

SetHeader(key, n) == << SetName >> \o key \o << Digit0 + n, CR, LF >>

GetHeader(key) == << GetName >> \o key \o << CR, LF >>

(* The bytes a client writes for a command.                                *)
Bytes(cmd) ==
    IF cmd.op = "Set"
    THEN SetHeader(cmd.key, Len(cmd.blob)) \o cmd.blob \o << CR, LF >>
    ELSE GetHeader(cmd.key)

(* msg.find('\n') == std::string_view::npos                                *)
npos(msg) == \A i \in 1 .. Len(msg) : msg[i] # LF

remove_prefix(msg, n) == SubSeq(msg, n + 1, Len(msg))

(* Parser::parse on a message that starts with a complete header line: the *)
(* state it ends in, the number of bytes of the header line, the key and   *)
(* the size of the blob.                                                   *)
Parser_parse(msg) ==
    IF Len(msg) >= 5 /\ msg[1] = SetName /\ msg[4] = CR /\ msg[5] = LF
    THEN [_state |-> "CmdSet", nr_consumed |-> 5, key |-> << msg[2] >>,
          _blob_size |-> msg[3] - Digit0]
    ELSE IF Len(msg) >= 4 /\ msg[1] = GetName /\ msg[3] = CR /\ msg[4] = LF
    THEN [_state |-> "CmdGet", nr_consumed |-> 4, key |-> << msg[2] >>, _blob_size |-> 0]
    ELSE [_state |-> "Error", nr_consumed |-> 0, key |-> << >>, _blob_size |-> 0]

(* A process_one that does not wait for the data block of a set.           *)
process_one_unchecked(msg, parser) ==
    IF parser._state = "CmdSet"
    THEN [nr_consumed |-> parser.nr_consumed + parser._blob_size + 2,
          cmds |-> << [op |-> "Set", key |-> parser.key,
                       blob |-> SubSeq(msg, parser.nr_consumed + 1,
                                       IF Len(msg) < parser.nr_consumed + parser._blob_size
                                       THEN Len(msg)
                                       ELSE parser.nr_consumed + parser._blob_size)] >>]
    ELSE IF parser._state = "CmdGet"
    THEN [nr_consumed |-> parser.nr_consumed,
          cmds |-> << [op |-> "Get", key |-> parser.key, blob |-> << >>] >>]
    ELSE [nr_consumed |-> parser.nr_consumed, cmds |-> << >>]

(* Server::process_one on the message msg, parsed as parser: the number of *)
(* bytes it consumes and the command it executes and answers, if any.      *)
process_one(msg, parser) ==
    IF parser._state = "CmdSet"
    THEN IF Len(msg) < parser.nr_consumed + parser._blob_size + 2
         THEN [nr_consumed |-> 0, cmds |-> << >>]
         ELSE [nr_consumed |-> parser.nr_consumed + parser._blob_size + 2,
               cmds |-> << [op |-> "Set", key |-> parser.key,
                            blob |-> SubSeq(msg, parser.nr_consumed + 1,
                                            parser.nr_consumed + parser._blob_size)] >>]
    ELSE IF parser._state = "CmdGet"
    THEN [nr_consumed |-> parser.nr_consumed,
          cmds |-> << [op |-> "Get", key |-> parser.key, blob |-> << >>] >>]
    ELSE [nr_consumed |-> parser.nr_consumed, cmds |-> << >>]

(* The loop of Server::recv when _rx_buffer is empty: buf is the buffer it *)
(* leaves, cmds the commands it has executed.                              *)
RECURSIVE RecvDirect(_, _)
AfterDirect(msg, cmds, p) ==
    IF p.nr_consumed = 0
    THEN [buf |-> msg, cmds |-> cmds \o p.cmds]
    ELSE RecvDirect(remove_prefix(msg, p.nr_consumed), cmds \o p.cmds)

RecvDirect(msg, cmds) ==
    IF npos(msg)
    THEN [buf |-> msg, cmds |-> cmds]
    ELSE AfterDirect(msg, cmds, process_one(msg, Parser_parse(msg)))

(* The loop of Server::recv on a buffer that was not empty, after the      *)
(* message has been appended to it.                                        *)
RECURSIVE RecvBuffered(_, _)
AfterBuffered(buf, cmds, p) ==
    IF p.nr_consumed = 0
    THEN [buf |-> buf, cmds |-> cmds \o p.cmds]
    ELSE RecvBuffered(remove_prefix(buf, p.nr_consumed), cmds \o p.cmds)

RecvBuffered(buf, cmds) ==
    IF npos(buf)
    THEN [buf |-> buf, cmds |-> cmds]
    ELSE AfterBuffered(buf, cmds, process_one(buf, Parser_parse(buf)))

Server_recv_msg(buf, msg) ==
    IF buf = << >> THEN RecvDirect(msg, << >>) ELSE RecvBuffered(buf \o msg, << >>)

(* The client writes one more command to the connection.                   *)
Client_write(cmd, max) ==
    /\ Len(requests) < max
    /\ requests' = Append(requests, cmd)
    /\ unread' = unread \o Bytes(cmd)
    /\ UNCHANGED << _rx_buffer, processed, _tx_buf, handed, passed, writable, sock, nr_sends,
                    servervars, reactorvars, configvars, logvars, queuevars >>

(* The socket is readable and Server::recv is given the next size bytes of *)
(* the stream.                                                             *)
Server_recv_bytes(size) ==
    /\ size \in 1 .. Len(unread)
    /\ \E r \in {Server_recv_msg(_rx_buffer, SubSeq(unread, 1, size))} :
          /\ _rx_buffer' = r.buf
          /\ processed' = processed \o r.cmds
    /\ unread' = remove_prefix(unread, size)
    /\ UNCHANGED << requests, _tx_buf, handed, passed, writable, sock, nr_sends,
                    servervars, reactorvars, configvars, logvars, queuevars >>

NoThread == [pc |-> "none", other |-> 0, has_messages |-> FALSE, nr |-> 0, id |-> 0]

SystemInit ==
    /\ _nr_threads = 0
    /\ build = [NDEBUG |-> FALSE, char_is_signed |-> FALSE]
    /\ hash = [key \in Keys |-> 0]
    /\ _log = [t \in Threads |-> Log_Log]
    /\ wire = << >>
    /\ executed = << >>
    /\ nr_cmds = 0
    /\ aborted = FALSE
    /\ received = << >>
    /\ _msg_queues = [to \in Threads |-> [from \in Threads |-> [items |-> << >>, hidden |-> 0]]]
    /\ _pending_wakeups = [t \in Threads |-> {}]
    /\ _thread_is_sleeping = [t \in Threads |-> FALSE]
    /\ _efds = [t \in Threads |-> 0]
    /\ thread = [t \in Threads |-> NoThread]
    /\ sent_msgs = [to \in Threads |-> [from \in Threads |-> << >>]]
    /\ delivered_msgs = [to \in Threads |-> [from \in Threads |-> << >>]]
    /\ args = NoArgs
    /\ carved = {}

(***************************************************************************)
(* Specifications.                                                         *)
(***************************************************************************)
Init == LogInit /\ QueueInit /\ SystemInit /\ SocketInit

(* Appends and removes on a Log.                                           *)
Next ==
    \/ \E key \in Keys, n \in BlobSizes : CallAppend(key, Blob(n), MaxOps)
    \/ \E key \in Keys : CallRemove(key, MaxOps)

Spec == Init /\ [][Next]_vars

(* The same over three keys, for fewer calls.                              *)
MaxFreshOps == 5

FreshNext ==
    \/ \E key \in MoreKeys, n \in BlobSizes : CallAppend(key, Blob(n), MaxFreshOps)
    \/ \E key \in MoreKeys : CallRemove(key, MaxFreshOps)

FreshSpec == Init /\ [][FreshNext]_vars

(* Appends, removes and calls of Log::compact(size_t).                     *)
MaxCompactOps == 5

CompactNext ==
    \/ \E key \in Keys, n \in BlobSizes : CallAppend(key, Blob(n), MaxCompactOps)
    \/ \E key \in Keys : CallRemove(key, MaxCompactOps)
    \/ \E reclaim_target \in ReclaimTargets : CallCompact(reclaim_target, MaxCompactOps)
    \/ CallAppendAgain(MaxCompactOps)

CompactSpec == Init /\ [][CompactNext]_vars

(* Appends and removes of objects whose sizes, 17 and 36 bytes, never fill *)
(* a segment exactly, so that no call reaches __builtin_clz(0).            *)
MaxRemoveOps == 6

UnevenBlobSizes == {4, 23}

RemoveNext ==
    \/ \E key \in Keys, n \in UnevenBlobSizes : CallAppend(key, Blob(n), MaxRemoveOps)
    \/ \E key \in Keys : CallRemove(key, MaxRemoveOps)

RemoveSpec == Init /\ [][RemoveNext]_vars

(* One key written again and again with blobs of 1, 4 and 23 bytes, that   *)
(* is objects of 14, 17 and 36 bytes.                                      *)
MaxRewriteOps == 6

RewriteBlobSizes == {1, 4, 23}

RewrittenKeys == {<< 65 >>}

RewriteNext ==
    \E key \in RewrittenKeys, n \in RewriteBlobSizes : CallAppend(key, Blob(n), MaxRewriteOps)

RewriteSpec == Init /\ [][RewriteNext]_vars

(* Appends of objects of 36 and of 65 bytes, the latter above              *)
(* segment_size, and removes.                                              *)
MaxOversizeOps == 4

OversizeBlobSizes == {23, 52}

OversizeNext ==
    \/ \E key \in Keys, n \in OversizeBlobSizes : CallAppend(key, Blob(n), MaxOversizeOps)
    \/ \E key \in Keys : CallRemove(key, MaxOversizeOps)

OversizeSpec == Init /\ [][OversizeNext]_vars

(* The options of the command line and the Logs the threads construct.    *)
MaxMemoryLimit == 6

MaxSegmentSize == 3

MaxNrThreads == 3

ConfigNext ==
    \/ \E memory_limit \in 1 .. MaxMemoryLimit, size \in 1 .. MaxSegmentSize,
          nr_threads \in 1 .. MaxNrThreads : parse_cmd_line(memory_limit, size, nr_threads)
    \/ \E thread_id \in 0 .. (MaxNrThreads - 1) : server_thread(thread_id)

ConfigSpec == Init /\ [][ConfigNext]_vars

(* One producer and one consumer on a Queue.                               *)
QueueNext ==
    \/ try_to_emplace_load_tail
    \/ try_to_emplace_load_head
    \/ try_to_emplace_write
    \/ try_to_emplace_store_tail
    \/ empty_load_head
    \/ empty_load_tail
    \/ front_load_head
    \/ front_load_tail
    \/ read_item
    \/ pop_load_head
    \/ pop_destroy
    \/ pop_store_head

QueueSpec == Init /\ [][QueueNext]_vars

(* The two threads of the test producer_consumer: the producer retries     *)
(* try_to_emplace for each of MaxItems items, the consumer retries front   *)
(* and pops until it has taken MaxItems items.  Each thread, once started, *)
(* keeps being scheduled.                                                  *)
producer_thread ==
    \/ try_to_emplace_load_tail
    \/ try_to_emplace_load_head
    \/ try_to_emplace_write
    \/ try_to_emplace_store_tail

consumer_thread ==
    \/ Len(consumed) < MaxItems /\ front_load_head
    \/ front_load_tail
    \/ read_item
    \/ pop_load_head
    \/ pop_destroy
    \/ pop_store_head

ThreadsNext == producer_thread \/ consumer_thread

ThreadsSpec ==
    Init /\ [][ThreadsNext]_vars /\ WF_vars(producer_thread) /\ WF_vars(consumer_thread)

(* The threads of a server with a TCP listener: their loops, and commands  *)
(* arriving on the sockets of every shard.                                 *)
MaxCmds == 2

ParserStates == {"Error", "CmdSet", "CmdGet"}

ServerBlobSizes == {23}

ReactorNext ==
    \/ \E nr_threads \in ThreadCounts, h \in [Keys -> HashValues], b \in Builds :
          b.char_is_signed /\ server_main(nr_threads, h, b)
    \/ \E t \in Threads : Reactor_wake_up_pending(t)
    \/ \E t \in Threads : Reactor_poll_messages(t)
    \/ \E t \in Threads : Reactor_run(t)
    \/ \E t \in Threads : Reactor_flush(t)

ServerNext ==
    \/ ReactorNext
    \/ \E t \in Threads, state \in ParserStates, key \in Keys, n \in ServerBlobSizes :
          Server_recv(t, state, key, n, MaxCmds)

ServerSpec == Init /\ [][ServerNext]_vars

(* The threads of a server with UDP sockets: datagrams that are too short, *)
(* and datagrams of a header and one command.                              *)
MaxDatagrams == 1

HeaderBytes == {1, 128, 255}

Headers == {<< a, b, 255, 255, 0, 1, 0, 0 >> : a \in HeaderBytes, b \in HeaderBytes}

ShortDatagrams == {<< >>, << 0, 1, 0, 1, 0, 1, 0 >>}

UdpNext ==
    \/ \E nr_threads \in ThreadCounts, h \in [Keys -> HashValues], b \in Builds :
          ~b.NDEBUG /\ server_main(nr_threads, h, b)
    \/ \E t \in Threads : Reactor_wake_up_pending(t)
    \/ \E t \in Threads : Reactor_poll_messages(t)
    \/ \E t \in Threads : Reactor_run(t)
    \/ \E t \in Threads : Reactor_flush(t)
    \/ \E t \in Threads, msg \in Headers \cup ShortDatagrams, state \in ParserStates,
          key \in Keys, n \in ServerBlobSizes :
          Server_recv_udp(t, msg, state, key, n, MaxDatagrams)

UdpSpec == Init /\ [][UdpNext]_vars

(* One connection, to shard 0 of two, of a build that keeps assert(): the  *)
(* client sends a command when it has the responses of those before it,    *)
(* and the hash of every key is odd, so that its shard is shard 1.         *)
RemoteHash == [key \in Keys |-> 7]

MaxConnectionCmds == 4

ConnectionNext ==
    \/ server_main(2, RemoteHash, [NDEBUG |-> FALSE, char_is_signed |-> TRUE])
    \/ \E t \in Threads : Reactor_wake_up_pending(t)
    \/ \E t \in Threads : Reactor_poll_messages(t)
    \/ \E t \in Threads : Reactor_run(t)
    \/ \E t \in Threads : Reactor_flush(t)
    \/ \E state \in {"CmdSet", "CmdGet"}, key \in Keys, n \in ServerBlobSizes :
          Len(wire) = nr_cmds /\ Server_recv(0, state, key, n, MaxConnectionCmds)

ConnectionSpec == Init /\ [][ConnectionNext]_vars

(* Pipelined gets of remote keys: thread 0 receives the next command       *)
(* whether or not the earlier ones have been answered.                     *)
MaxPipelinedCmds == 3

PipelineNext ==
    \/ server_main(2, RemoteHash, [NDEBUG |-> FALSE, char_is_signed |-> TRUE])
    \/ \E t \in Threads : Reactor_wake_up_pending(t)
    \/ \E t \in Threads : Reactor_poll_messages(t)
    \/ \E t \in Threads : Reactor_run(t)
    \/ \E t \in Threads : Reactor_flush(t)
    \/ \E key \in Keys : Server_recv(0, "CmdGet", key, 0, MaxPipelinedCmds)

PipelineSpec == Init /\ [][PipelineNext]_vars

(* Calls of TcpSocket::send and of TcpSocket::on_pollout on one socket, in  *)
(* any order.  Every message has bytes of its own.                         *)
MaxSends == 3

MessageSizes == {2, 4}

Message(len) == [i \in 1 .. len |-> 10 * (nr_sends + 1) + i]

SendNext ==
    \E len \in MessageSizes :
        \E out \in SendOutcomes(len), reversed \in ReversedRangeOutcomes :
            Server_respond(Message(len), out, reversed, MaxSends)

SocketNext ==
    \/ SendNext
    \/ \E out \in SendOutcomes(Len(_tx_buf)) : CallOnPollout(out)

SocketSpec == Init /\ [][SocketNext]_vars

(* The responses of a server to one connection: the server calls send, and *)
(* on_pollout is called for a socket registered for writable readiness     *)
(* only, which no step of the server does.                                 *)
ResponseSpec == Init /\ [][SendNext]_vars

(* One connection whose client writes up to MaxRequests commands, a set    *)
(* with a blob that holds a line feed or a get, and whose bytes reach the  *)
(* server in pieces of any size.                                           *)
MaxRequests == 3

StreamBlob == << LF, 120 >>

StreamCommands ==
    {[op |-> "Set", key |-> << 65 >>, blob |-> StreamBlob],
     [op |-> "Get", key |-> << 65 >>, blob |-> << >>]}

MaxRecvSize == 14

StreamNext ==
    \/ \E cmd \in StreamCommands : Client_write(cmd, MaxRequests)
    \/ \E size \in 1 .. MaxRecvSize : Server_recv_bytes(size)

StreamSpec == Init /\ [][StreamNext]_vars

(***************************************************************************)
(* Properties.                                                             *)
(***************************************************************************)
IndexEntries(L) ==
    UNION {{[key |-> K, kv |-> L.index[K][i].kv, obj |-> L.index[K][i].obj] :
               i \in 1 .. Len(L.index[K])} : K \in DOMAIN L.index}

(* The object at p lies in [start, _pos) of its segment.                   *)
InOccupiedRange(L, p) ==
    /\ p.o < L.pos[p.s]
    /\ ObjectInArea(L, p)
    /\ p.o + Object_size(L, p) <= L.pos[p.s]

KeyOf(L, p) ==
    IF ViewInArea(Object_key(L, p)) THEN ViewBytes(L, Object_key(L, p)) ELSE Wild

(* C1: when Log::append(K, V) returns true, a Log::find(K) that follows it *)
(* at once returns a blob equal to V.                                      *)
C1_FindAfterAppend ==
    (last.op = "append" /\ last.ret /\ ~crashed) => FindBlob(Log, last.key) = last.blob

(* A successful append of a key that was indexed, after a compaction has   *)
(* had to run.                                                             *)
C1_Witness ==
    /\ last.op = "append" /\ last.ret /\ ~crashed
    /\ last.was # NULL
    /\ \E i \in 2 .. Len(calls) : calls[i].op = "append" /\ ~calls[i].ret
    /\ FindBlob(Log, last.key) = last.blob

(* C2: when Log::append(K, V2) succeeds for a key K that the index maps to *)
(* an object O, then afterwards find(K) is V2, O is marked expired and the *)
(* object the index now maps K to is not expired.                          *)
C2_OverwriteExpiresOld ==
    (last.op = "append" /\ last.ret /\ last.was # NULL /\ ~crashed) =>
        /\ FindBlob(Log, last.key) = last.blob
        /\ Object_is_expired(Log, last.was)
        /\ ~Object_is_expired(Log, Indexed(Log, last.key))

(* C3: Log::remove(K) returns true exactly when K had been appended with   *)
(* success and not removed since, and find(K) is absent for every key that *)
(* has been removed, or never appended, until an append of it succeeds.    *)
C3_RemovedStaysAbsent ==
    ~crashed =>
        /\ last.op = "remove" => (last.ret <=> last.had)
        /\ \A key \in MoreKeys \ live : FindBlob(Log, key) = Absent

(* C4: in every reachable state, no object that an index entry points to   *)
(* is expired.                                                             *)
C4_IndexedNotExpired ==
    ~crashed => \A e \in IndexEntries(Log) : ~Object_is_expired(Log, e.obj)

(* C5: in every reachable state, every index entry K -> O points to an     *)
(* object inside the occupied range of its segment whose key is K.         *)
C5_IndexedInsideSegment ==
    ~crashed =>
        \A e \in IndexEntries(Log) :
            /\ InOccupiedRange(Log, e.obj)
            /\ KeyOf(Log, e.obj) = e.key

Prefix(s, t) == Len(s) <= Len(t) /\ \A i \in 1 .. Len(s) : s[i] = t[i]

(* C6: the sequence of values the consumer reads through front() is a      *)
(* prefix of the sequence of values emplaced with success.                 *)
C6_ConsumedPrefixOfProduced == Prefix(consumed, produced)

(* Every value has been consumed, the indices having wrapped around.       *)
C6_Witness ==
    /\ Len(consumed) = MaxItems
    /\ Len(consumed) > N
    /\ consumed = produced

(* The number of items read through front() and popped: the consumer is    *)
(* between its read and the store of _head for at most one item.           *)
Popped ==
    Len(consumed) - (IF consumer.pc \in {"pop", "destroy", "store_head"} THEN 1 ELSE 0)

Stored == Len(produced) - Popped

(* C7: _head and _tail are below N, the queue stores (tail - head) mod N   *)
(* elements and at most N - 1; empty() is true, and front() null, exactly  *)
(* when head == tail, which is when it stores nothing, so that it is not   *)
(* empty right after a successful try_to_emplace; try_to_emplace returns   *)
(* false only when (tail + 1) mod N is the head it loaded, and then it     *)
(* leaves _head, _tail and every slot as they were.                        *)
C7_QueueIndices ==
    /\ _head \in 0 .. (N - 1)
    /\ _tail \in 0 .. (N - 1)
    /\ (_tail - _head + N) % N = Stored
    /\ Stored <= N - 1
    /\ Queue_empty <=> _head = _tail
    /\ Queue_empty <=> Stored = 0
    /\ (consumer.op = "front" /\ consumer.pc = "idle" /\ ~consumer.ret) =>
           consumer.tail = consumer.head
    /\ (consumer.op = "front" /\ consumer.pc = "item") => (_head # _tail /\ Stored > 0)
    /\ (producer.op = "empty" /\ producer.pc = "idle") =>
           (producer.ret <=> producer.head = producer.tail)
    /\ (producer.op = "try_to_emplace" /\ producer.pc = "idle" /\ ~producer.ret) =>
           (producer.tail + 1) % N = producer.head

C7_QueueSteps ==
    /\ (producer.pc = "store_tail" /\ producer'.pc = "idle") => ~Queue_empty'
    /\ (producer.pc = "idle" /\ producer'.pc = "load_head") =>
           UNCHANGED << _head, _tail, _data >>
    /\ (producer.pc = "load_head" /\ producer'.pc = "idle") =>
           (~producer'.ret /\ UNCHANGED << _head, _tail, _data >>)

C7_Queue == [](C7_QueueIndices) /\ [][C7_QueueSteps]_vars

(* A try_to_emplace has just failed on a queue of N - 1 elements whose     *)
(* indices have wrapped around.                                            *)
C7_Witness ==
    /\ producer.op = "try_to_emplace" /\ producer.pc = "idle" /\ ~producer.ret
    /\ Stored = N - 1
    /\ _tail < _head

(* C8: when Log::append returns false for a fresh key and an object of     *)
(* size s, the append that follows at once, of another fresh key with an   *)
(* object of the same size, returns false too.                             *)
C8_NoPhantomCapacity ==
    (/\ ~crashed
     /\ Len(calls) >= 2
     /\ calls[2].op = "append" /\ calls[2].fresh /\ ~calls[2].ret
     /\ calls[1].op = "append" /\ calls[1].fresh /\ calls[1].key # calls[2].key
     /\ calls[1].size = calls[2].size) => ~calls[1].ret

(* The calls of the scenario: an append of an object of the size of K's    *)
(* object failed, then remove(K) returned true for a K appended with       *)
(* success, then Log::compact was called.                                  *)
C9_Removed(i) ==
    /\ Len(calls) >= i + 2
    /\ calls[i + 2].op = "append" /\ ~calls[i + 2].ret
    /\ calls[i + 1].op = "remove" /\ calls[i + 1].ret /\ calls[i + 1].had
    /\ calls[i + 1].size = calls[i + 2].size
    /\ calls[i].op = "compact"

(* C9: in that scenario the compaction returns at least the size of K's    *)
(* object, and an append(K, V) that follows it succeeds, after which       *)
(* find(K) is V.                                                           *)
C9_RemovedSpaceIsReclaimed ==
    ~crashed =>
        /\ C9_Removed(1) => calls[1].nr >= calls[2].size
        /\ (/\ C9_Removed(2)
            /\ calls[1].op = "append"
            /\ calls[1].key = calls[3].key
            /\ calls[1].blob = calls[3].blob) =>
               (calls[1].ret /\ FindBlob(Log, calls[1].key) = calls[1].blob)

Contents(m, p) == [s \in Segs |-> SubSeq(m[s], 1, p[s])]

(* C10: Log::compact with reclaim target 0 returns 0 and leaves the index, *)
(* the contents and the cursor of every segment and the result of find for *)
(* every key as they were.                                                 *)
C10_CompactZeroChangesNothing ==
    (last.op = "compact" /\ last.size = 0 /\ ~crashed) =>
        /\ last.nr = 0
        /\ _index = last.pre.index
        /\ pos = last.pre.pos
        /\ Contents(mem, pos) = Contents(last.pre.mem, last.pre.pos)
        /\ \A key \in MoreKeys : FindBlob(Log, key) = last.pre.find[key]

(* The shard the router is to give for a command that has been run.        *)
C11_target_shard(e) == IF _nr_threads = 1 THEN e.origin ELSE hash[e.key] % _nr_threads

C11_ExecutedAtTarget ==
    \A i \in 1 .. Len(executed) : executed[i].by = C11_target_shard(executed[i])

C11_OwnLogOnly ==
    \A s \in Threads :
        _log'[s] # _log[s] =>
            /\ Len(executed') = Len(executed) + 1
            /\ executed'[Len(executed')].op = "Set"
            /\ executed'[Len(executed')].by = s
            /\ C11_target_shard(executed'[Len(executed')]) = s

(* C11: every set or get that is run is run by the thread of the shard     *)
(* target_shard(K) = hash(K) mod nr_threads, the receiving shard when      *)
(* nr_threads is 1, and a step changes the Log of a shard only by running  *)
(* a set of that shard's thread whose key has that shard as its target.    *)
C11_ShardIsolation == [](C11_ExecutedAtTarget) /\ [][C11_OwnLogOnly]_vars

(* Of two shards, one has run a set it received itself and then a get that *)
(* the other shard received, and found the value of the set.               *)
C11_Witness ==
    /\ _nr_threads = 2
    /\ Len(executed) = 2
    /\ executed[1].op = "Set" /\ executed[1].ret /\ executed[1].origin = executed[1].by
    /\ executed[2].op = "Get" /\ executed[2].origin # executed[2].by
    /\ executed[2].by = executed[1].by
    /\ executed[2].value = executed[1].value

C12_Responses(id) == {i \in 1 .. Len(wire) : wire[i].id = id}

C12_InFlight(id) ==
    \E to \in Threads, from \in Threads :
        \E i \in 1 .. Len(_msg_queues[to][from].items) :
            _msg_queues[to][from].items[i].id = id

C12_Remote(r) ==
    r.state # "Error" /\ _nr_threads > 1 /\ hash[r.key] % _nr_threads # r.sock

(* The text the local path sends for a command run with result e.          *)
C12_LocalText(e) ==
    IF e.op = "Set"
    THEN (IF e.ret THEN "STORED\r\n" ELSE "SERVER_ERROR out of memory storing object\r\n")
    ELSE (IF e.value # Absent THEN "VALUE <key> 0 <size>\r\n<value>\r\nEND\r\n" ELSE "END\r\n")

C12_Answers(w, r, e) ==
    /\ w.sock = r.sock
    /\ e.id = r.id
    /\ e.by = hash[r.key] % _nr_threads
    /\ e.op = (IF r.state = "CmdSet" THEN "Set" ELSE "Get")
    /\ w.response.frame = make_response_frame(NoRequestId)
    /\ w.response.text = C12_LocalText(e)
    /\ ((e.op = "Get" /\ e.value # Absent) =>
           (w.response.key = r.key /\ w.response.value = e.value
            /\ w.response.size = Len(e.value)))

(* C12: every complete set or get received for a key of a remote shard is  *)
(* on its way between the two shards, the process running, or has exactly  *)
(* one response, sent on the socket that received it, with the bytes the   *)
(* local path sends for the result the target shard had when it ran it.    *)
C12_RemoteCommandAnswered ==
    \A k \in 1 .. Len(received) :
        C12_Remote(received[k]) =>
            /\ Cardinality(C12_Responses(received[k].id)) <= 1
            /\ (C12_Responses(received[k].id) = {} =>
                   (C12_InFlight(received[k].id) /\ ~aborted))
            /\ \A i \in C12_Responses(received[k].id) :
                   \E j \in 1 .. Len(executed) :
                       C12_Answers(wire[i], received[k], executed[j])

C14_EnqueuedBack(w) ==
    \A k \in 1 .. Len(received) :
        (received[k].id = w.id /\ C12_Remote(received[k])) =>
            \E j \in 1 .. Len(delivered_msgs[w.sock][hash[received[k].key] % _nr_threads]) :
                delivered_msgs[w.sock][hash[received[k].key] % _nr_threads][j] = w.id

(* C14: every response is sent by the thread of the shard that owns the    *)
(* socket, and the response of a remote command only after its envelope    *)
(* has come back to that shard.                                            *)
C14_OriginSendsResponse ==
    \A i \in 1 .. Len(wire) : wire[i].by = wire[i].sock /\ C14_EnqueuedBack(wire[i])

(* The set of the command r has run with success before the get that ran   *)
(* as number j, which found the value of a set of its key that ran with    *)
(* success no earlier than that of r.                                      *)
C13_ReadsWrite(r, j) ==
    \E i \in 1 .. (j - 1) :
        /\ executed[i].id = r.id
        /\ \E w \in i .. (j - 1) :
              /\ executed[w].op = "Set" /\ executed[w].ret
              /\ executed[w].key = executed[j].key
              /\ executed[w].value = executed[j].value

C13_SetBefore(r, g) ==
    /\ r.state = "CmdSet" /\ r.id < g.id /\ r.sock = g.origin /\ r.key = g.key
    /\ \E i \in 1 .. Len(executed) : executed[i].id = r.id /\ executed[i].ret

(* C13: a get of a key of a remote shard, received on a socket after a set *)
(* of that key that ran with success, runs after that set and finds the    *)
(* value of that set or of a later set of the key.                         *)
C13_ReadYourWrites ==
    \A j \in 1 .. Len(executed) :
        (executed[j].op = "Get" /\ executed[j].origin # executed[j].by) =>
            \A k \in 1 .. Len(received) :
                C13_SetBefore(received[k], executed[j]) => C13_ReadsWrite(received[k], j)

C15_BeingWoken(t) ==
    \/ _efds[t] = 1
    \/ \E o \in Threads :
          /\ Running(o)
          /\ \/ /\ t \in _pending_wakeups[o]
                /\ _thread_is_sleeping[t]
                /\ thread[o].pc \notin {"sleep", "has_messages", "blocked"}
                /\ (thread[o].pc = "wake_up_pending" => thread[o].id <= t)
             \/ (thread[o].pc \in {"store", "wake_up"} /\ thread[o].id = t)

(* C15: a thread that is blocked while one of its inbound queues holds a   *)
(* message has its wakeup handle written, or the sender of the message is  *)
(* still to look at its sleeping flag, which is true, or to write its      *)
(* handle: no thread stays blocked with a message to deliver.              *)
C15_NoLostWakeup ==
    \A t \in Threads :
        (/\ Running(t)
         /\ thread[t].pc = "blocked"
         /\ \E o \in Threads : _msg_queues[t][o].items # << >>) => C15_BeingWoken(t)

C16_Ids(items) == [i \in 1 .. Len(items) |-> items[i].id]

C16_ExactlyOnceInOrder ==
    /\ \A to \in Threads, from \in Threads :
           sent_msgs[to][from] = delivered_msgs[to][from] \o C16_Ids(_msg_queues[to][from].items)
    /\ \A t \in Threads :
           /\ (thread[t].pc \in {"poll_messages", "io", "sleep"} =>
                  (thread[t].has_messages <=> thread[t].nr > 0))
           /\ (thread[t].pc = "io" => thread[t].has_messages)
           /\ (thread[t].pc = "sleep" => ~thread[t].has_messages)

C16_HasMessagesConsumesNothing ==
    \A t \in Threads :
        (thread[t].pc = "has_messages" /\ thread'[t].pc # "has_messages") =>
            /\ _msg_queues' = _msg_queues
            /\ delivered_msgs' = delivered_msgs
            /\ (thread'[t].pc = "blocked" <=>
                   \A o \in Threads : Visible(_msg_queues[t][o]) = << >>)
            /\ (thread'[t].pc # "blocked" =>
                   \E o \in Threads : _msg_queues[t][o].items # << >>)

(* C16: the messages send_msg has accepted from one shard for another are  *)
(* those delivered to on_message, once each and in the order sent, and     *)
(* then those still in the queue; poll_messages returns true exactly when  *)
(* it has delivered a message; has_messages is true exactly when the       *)
(* thread sees a message in an inbound queue, and it changes no queue.     *)
C16_FifoDelivery == [](C16_ExactlyOnceInOrder) /\ [][C16_HasMessagesConsumesNothing]_vars

(* Two messages sent from one shard have been delivered to the other, the  *)
(* second by a later call of poll_messages than the first.                 *)
C16_Witness ==
    \E to \in Threads, from \in Threads :
        /\ Len(delivered_msgs[to][from]) = 2
        /\ delivered_msgs[to][from] = sent_msgs[to][from]
        /\ thread[to].pc = "io" /\ thread[to].nr = 1

C17_OversizeStep ==
    (/\ nr_calls' = nr_calls + 1
     /\ calls'[1].op = "append"
     /\ Object_size_of(Len(calls'[1].key), Len(calls'[1].blob)) > segment_size) =>
        /\ ~calls'[1].ret
        /\ UNCHANGED << mem, pos, _segments, _current_segment, _index, crashed >>

(* C17: a call of Log::append for an object of more than segment_size      *)
(* bytes returns false and leaves the segments, their cursors, the current *)
(* segment, the segment lists and the index as they were.                  *)
C17_OversizeRejected == [][C17_OversizeStep]_vars

(* An object above segment_size has been refused by a Log that holds an    *)
(* object and whose current segment is in use.                             *)
C17_Witness ==
    /\ last.op = "append" /\ ~last.ret /\ ~crashed
    /\ last.size > segment_size
    /\ live # {}
    /\ _current_segment # NoSegment
    /\ pos[_current_segment] > 0

(* The most the occupancies of the segments of a Log can come to: every    *)
(* segment filled up to its end.                                           *)
C18_Capacity(c) == Cardinality(c.segments) * (c.config.segment_size - sizeof_Segment)

(* C18: every segment the constructor of a Log places lies inside          *)
(* [memory_ptr, memory_ptr + memory_size) of the configuration the server  *)
(* built from accepted options, and the occupancies of the segments cannot *)
(* come to more than memory_size.                                          *)
C18_SegmentsInsideMemory ==
    \A c \in carved :
        /\ \A s \in c.segments : 0 <= s.start /\ s.end <= c.config.memory_size
        /\ C18_Capacity(c) <= c.config.memory_size

(* The objects of segment seg from obj on, as Log::compact walks them.     *)
RECURSIVE C19_ObjectsFrom(_, _, _)
C19_ObjectsFrom(L, seg, obj) ==
    IF obj = NULL THEN {}
    ELSE IF ~ObjectInArea(L, obj) THEN {obj}
    ELSE {obj} \cup C19_ObjectsFrom(L, seg, Segment_next_object(L, seg, obj))

C19_Objects(L) == UNION {C19_ObjectsFrom(L, seg, Segment_first_object(L, seg)) : seg \in Segs}

C19_LiveObjects(L, key) ==
    {obj \in C19_Objects(L) : KeyOf(L, obj) = key /\ ~Object_is_expired(L, obj)}

(* C19: for every key, at most one of the objects in the occupied ranges   *)
(* of the segments has that key and is not expired.                        *)
C19_OneLiveObjectPerKey ==
    ~crashed => \A key \in MoreKeys : Cardinality(C19_LiveObjects(Log, key)) <= 1

(* C20: every response to a datagram with a header of 8 bytes starts with  *)
(* the request_id and the sequence_num of the request, as the two bytes    *)
(* each that the request carried, then nr_datagrams = 1 and reserved = 0;  *)
(* for a datagram of fewer than 8 bytes nothing is sent and nothing is     *)
(* run against a Log.                                                      *)
C20_UdpHeaderEchoed ==
    \A k \in 1 .. Len(received) :
        received[k].msg # Stream =>
            IF Len(received[k].msg) >= sizeof_UDPFrame
            THEN \A i \in C12_Responses(received[k].id) :
                     wire[i].response.frame =
                         SubSeq(received[k].msg, 1, 4) \o << 0, 1, 0, 0 >>
            ELSE /\ C12_Responses(received[k].id) = {}
                 /\ \A j \in 1 .. Len(executed) : executed[j].id # received[k].id

(***************************************************************************)
(* C21: TcpSocket::send loses, duplicates and reorders nothing: while the  *)
(* socket is in use, the bytes handed to ::send followed by the bytes in   *)
(* the transmit buffer are the concatenation of all messages passed to     *)
(* send, for every outcome of the non-blocking write.                      *)
(***************************************************************************)
C21_NothingLost == sock = "open" => handed \o _tx_buf = passed

(***************************************************************************)
(* C22: whenever the transmit buffer of a TcpSocket is not empty the       *)
(* socket is registered for writable readiness, so that the buffered bytes *)
(* of a response get written.                                              *)
(***************************************************************************)
C22_BufferedIsRegistered == (sock = "open" /\ _tx_buf # << >>) => writable

(***************************************************************************)
(* C23: the assertions assert(_reactor->send_msg(...)) of                   *)
(* Server::process_one and Server::on_message hold in every reachable      *)
(* state: the queue to the destination has a free slot whenever a command  *)
(* is forwarded or returned.                                               *)
(***************************************************************************)
C23_SendMsgSucceeds == ~aborted

(***************************************************************************)
(* C24: Log::append takes the space of an object from the current segment  *)
(* as long as the object fits in it, and it calls Log::compact only in     *)
(* states where no segment has remaining space for the object.             *)
(***************************************************************************)
C24_Fits(L, s, key, n) == Segment_remaining(L, s) >= Object_size_of(Len(key), n)

C24_FromCurrentSegment ==
    \A key \in MoreKeys, n \in BlobSizes :
        (_current_segment # NoSegment /\ C24_Fits(Log, _current_segment, key, n)) =>
            \A r \in AppendOutcomes(key, Blob(n)) :
                /\ r.ret
                /\ r.L.cur = _current_segment
                /\ r.L.pos = [pos EXCEPT ![_current_segment] =
                                  @ + Object_size_of(Len(key), n)]

(* The Logs in which Log::append(key, blob), called on L, calls compact:   *)
(* the one a failed append_nocompact leaves, in every round of the restart *)
(* loop.                                                                   *)
RECURSIVE C24_CompactedFrom(_, _, _)
C24_AfterCompact(c, key, blob) ==
    IF ~c.L.crashed /\ c.ret >= Object_size_of(Len(key), Len(blob))
    THEN C24_CompactedFrom(c.L, key, blob)
    ELSE {}

C24_AfterNocompact(a, key, blob) ==
    IF a.ret \/ a.L.crashed
    THEN {}
    ELSE {a.L} \cup C24_AfterCompact(Log_compact(a.L, Object_size_of(Len(key), Len(blob))),
                                    key, blob)

C24_CompactedFrom(L, key, blob) ==
    C24_AfterNocompact(Log_append_nocompact(L, key, blob), key, blob)

C24_ReclaimsLast ==
    \A key \in MoreKeys, n \in BlobSizes :
        ~crashed =>
            \A L \in C24_CompactedFrom(Log, key, Blob(n)) :
                \A s \in Segs : ~C24_Fits(L, s, key, n)

C24_CompactsOnlyWhenFull == C24_FromCurrentSegment /\ C24_ReclaimsLast

(***************************************************************************)
(* C25: last write wins.  After any sequence of append and remove calls,   *)
(* find(K) returns the blob of the most recent successful append(K, .)     *)
(* that no remove(K) followed, and nothing when there is none.             *)
(***************************************************************************)
C25_Writes(key) ==
    {i \in 1 .. Len(calls) :
        /\ calls[i].key = key
        /\ \/ calls[i].op = "remove"
           \/ calls[i].op = "append" /\ calls[i].ret}

(* calls holds the most recent call first.                                 *)
C25_LastWrite(key) ==
    IF C25_Writes(key) = {} \/ calls[FirstOf(C25_Writes(key))].op = "remove"
    THEN Absent
    ELSE calls[FirstOf(C25_Writes(key))].blob

C25_LastWriteWins ==
    (~crashed /\ nr_calls = Len(calls)) =>
        \A key \in MoreKeys : FindBlob(Log, key) = C25_LastWrite(key)

(***************************************************************************)
(* C26: compaction preserves live objects.  When the per-segment          *)
(* Log::compact resets a segment, the index maps the key of every object   *)
(* that was live in it to a copy in another segment, with the same key and *)
(* blob and not expired; when a re-append fails the segment is not reset   *)
(* and 0 is returned.  The segment looked at is the first one that         *)
(* Log::compact(size_t) compacts: the head of the highest non-empty list,  *)
(* erased from it.                                                         *)
(***************************************************************************)
C26_List(L) == LastOf(NonEmptyLists(L))

C26_Segment(L) == Head(L.segments[C26_List(L)])

C26_Started(L) == EraseFirst(Begin(L, C26_List(L)), C26_List(L))

C26_Live(L, seg) ==
    {obj \in C19_ObjectsFrom(L, seg, Segment_first_object(L, seg)) :
        /\ ObjectInArea(L, obj)
        /\ ~Object_is_expired(L, obj)
        /\ Indexed(L, ViewBytes(L, Object_key(L, obj))) = obj}

C26_Relocated(L, M, seg, obj, p) ==
    /\ p # NULL
    /\ p.s # seg
    /\ ObjectInArea(M, p)
    /\ ViewBytes(M, Object_key(M, p)) = ViewBytes(L, Object_key(L, obj))
    /\ ViewBytes(M, Object_blob(M, p)) = ViewBytes(L, Object_blob(L, obj))

C26_Moved(L, M, seg, obj) ==
    \A p \in {Indexed(M, ViewBytes(L, Object_key(L, obj)))} :
        C26_Relocated(L, M, seg, obj, p) /\ ~Object_is_expired(M, p)

C26_Compacted(L, c, seg) ==
    /\ c.ret > 0 => (c.L.pos[seg] = 0 /\ \A obj \in C26_Live(L, seg) : C26_Moved(L, c.L, seg, obj))
    /\ c.ret = 0 => c.L.pos[seg] = L.pos[seg]

C26_CompactionPreservesLive ==
    (~crashed /\ NonEmptyLists(Log) # {}) =>
        \A c \in {Log_compact_segment(C26_Started(Log), C26_Segment(Log))} :
            ~c.L.crashed => C26_Compacted(Log, c, C26_Segment(Log))

(***************************************************************************)
(* C27: in the compaction of a segment the objects taken for live are      *)
(* those that are not expired and that the index maps their key to; every  *)
(* other object is counted as garbage and is not re-appended.  So the      *)
(* garbage counted is the occupancy less the sizes of the live objects,    *)
(* and a compaction that resets the segment adds the sizes of the live     *)
(* objects, and nothing more, to the other segments.                       *)
(***************************************************************************)
RECURSIVE C27_Sizes(_, _)
C27_Sizes(L, objs) ==
    IF objs = {} THEN 0
    ELSE Object_size(L, CHOOSE obj \in objs : TRUE)
         + C27_Sizes(L, objs \ {CHOOSE obj \in objs : TRUE})

RECURSIVE C27_Sum(_, _)
C27_Sum(f, S) ==
    IF S = {} THEN 0 ELSE f[CHOOSE s \in S : TRUE] + C27_Sum(f, S \ {CHOOSE s \in S : TRUE})

C27_Counted(L, seg) == CountToReclaim(C26_Started(L), seg, Segment_first_object(L, seg))

C27_Appended(L, M, seg) == C27_Sum([s \in Segs |-> M.pos[s] - L.pos[s]], Segs \ {seg})

C27_OnlyExactObjectsLive ==
    (~crashed /\ NonEmptyLists(Log) # {}) =>
        \A seg \in {C26_Segment(Log)} :
            \A c \in {Log_compact_segment(C26_Started(Log), seg)} :
                (~c.L.crashed /\ C27_Counted(Log, seg) >= 0) =>
                    /\ C27_Counted(Log, seg) = pos[seg] - C27_Sizes(Log, C26_Live(Log, seg))
                    /\ c.ret > 0 =>
                           C27_Appended(Log, c.L, seg) = C27_Sizes(Log, C26_Live(Log, seg))

(***************************************************************************)
(* C28: Log::compact(target) stops as soon as the bytes reclaimed reach    *)
(* the target: when the first segment it compacts yields the target, it    *)
(* compacts no other segment, of the same list or of another.              *)
(***************************************************************************)
C28_Targets == {1, Object_size_of(1, 3), Object_size_of(1, 23)}

C28_Compacted(L, reclaim_target) ==
    CompactLists([L |-> L, nr |-> 0, compacted |-> << >>], 0, reclaim_target)

C28_StopsAtTarget ==
    (~crashed /\ NonEmptyLists(Log) # {}) =>
        \A reclaim_target \in C28_Targets :
            \A c \in {Log_compact_segment(C26_Started(Log), C26_Segment(Log))},
               r \in {C28_Compacted(Log, reclaim_target)} :
                (~r.L.crashed /\ c.ret >= reclaim_target) =>
                    r.compacted = << C26_Segment(Log) >>

(***************************************************************************)
(* C29: the byte count Log::compact returns never exceeds the net increase *)
(* of the free bytes of all segments: the bytes of relocated live objects  *)
(* are not counted as reclaimed.                                           *)
(***************************************************************************)
C29_Freed(L, M) == C27_Sum([s \in Segs |-> L.pos[s] - M.pos[s]], Segs)

C29_ReclaimedIsFreed ==
    ~crashed =>
        \A reclaim_target \in C28_Targets :
            \A r \in {Log_compact(Log, reclaim_target)} :
                ~r.L.crashed => r.ret <= C29_Freed(Log, r.L)

(***************************************************************************)
(* C30: Log::append always terminates: from every reachable Log, for every *)
(* key and blob, the restart loop of append is left after at most          *)
(* MaxRestarts rounds, and the re-appends of a compaction start no         *)
(* compaction of their own: the compaction in progress is still at the     *)
(* list it was at when the per-segment compact returns.                    *)
(***************************************************************************)
MaxRestarts == 8

C30_OneMore(rounds) == IF rounds < 0 THEN -1 ELSE rounds + 1

(* The number of restarts Log::append makes, -1 when it is still in its    *)
(* loop after fuel rounds.                                                 *)
RECURSIVE C30_Restarts(_, _, _, _)
C30_AfterCompact(c, key, blob, fuel) ==
    IF ~c.L.crashed /\ c.ret >= Object_size_of(Len(key), Len(blob))
    THEN C30_OneMore(C30_Restarts(c.L, key, blob, fuel - 1))
    ELSE 0

C30_AfterNocompact(a, key, blob, fuel) ==
    IF a.ret \/ a.L.crashed
    THEN 0
    ELSE C30_AfterCompact(Log_compact(a.L, Object_size_of(Len(key), Len(blob))),
                          key, blob, fuel)

C30_Restarts(L, key, blob, fuel) ==
    IF fuel = 0 THEN -1
    ELSE C30_AfterNocompact(Log_append_nocompact(L, key, blob), key, blob, fuel)

C30_LoopIsLeft ==
    ~crashed =>
        \A key \in MoreKeys, n \in BlobSizes :
            C30_Restarts(Log, key, Blob(n), MaxRestarts + 1) >= 0

C30_NoNestedCompaction ==
    (~crashed /\ NonEmptyLists(Log) # {}) =>
        Log_compact_segment(C26_Started(Log), C26_Segment(Log)).L.it_idx = C26_List(Log)

C31_Sizes == BlobSizes \cup RewriteBlobSizes

C31_SameFinds(L, M) == \A k \in MoreKeys : FindBlob(M, k) = FindBlob(L, k)

(* The results a call of append can have from the current Log.             *)
C31_Appends(key, blob) ==
    {Log_append(TheLog(clz0, front), key, blob) :
        clz0 \in ClzOfZeroOutcomes, front \in BOOLEAN}

C31_FailedAppendChangesNothing ==
    ~crashed =>
        \A key \in MoreKeys, n \in C31_Sizes :
            \A a \in C31_Appends(key, Blob(n)) :
                (~a.L.crashed /\ ~a.ret) => C31_SameFinds(Log, a.L)

(***************************************************************************)
(* C32: with every queue operation taken step by step, front never returns *)
(* a slot whose payload has not been written completely, and the producer  *)
(* never writes a slot that the consumer has not finished popping.         *)
(***************************************************************************)
(* The producer is between its load of _head and its store to _tail: it is *)
(* about to write, or has written, the slot producer.tail.                 *)
C32_Writing == producer.pc \in {"write", "store_tail"}

(* The consumer holds the slot consumer.head: front has returned it and    *)
(* pop has not yet stored _head.                                           *)
C32_Holding == consumer.pc \in {"item", "pop", "destroy", "store_head"}

C32_FrontIsWritten ==
    consumer.pc = "item" =>
        /\ _data[consumer.head] # Dead
        /\ ~(C32_Writing /\ producer.tail = consumer.head)

C32_WriteIsPopped ==
    C32_Writing =>
        /\ producer.pc = "write" => _data[producer.tail] = Dead
        /\ ~(C32_Holding /\ consumer.head = producer.tail)

C32_NoSlotShared == C32_FrontIsWritten /\ C32_WriteIsPopped

(* Both threads are inside an operation: the producer, whose index has     *)
(* wrapped around, writes a slot that has been popped while the consumer   *)
(* holds a later slot.                                                     *)
C32_Witness ==
    /\ producer.pc = "write"
    /\ consumer.pc = "item"
    /\ producer.tail < consumer.head
    /\ Len(produced) >= N

(***************************************************************************)
(* C33: when both threads keep being scheduled, the producer that retries  *)
(* try_to_emplace for each of MaxItems items and the consumer that retries *)
(* front and pop until it has taken MaxItems items both finish.            *)
(***************************************************************************)
C33_ProducerDone == producer.pc = "idle" /\ Len(produced) = MaxItems

C33_ConsumerDone == consumer.pc = "idle" /\ Len(consumed) = MaxItems

C33_BothTerminate == <>[](C33_ProducerDone /\ C33_ConsumerDone)

(* Both threads have finished, the indices having wrapped around.          *)
C33_Witness ==
    /\ C33_ProducerDone
    /\ C33_ConsumerDone
    /\ MaxItems > N
    /\ _head = _tail
    /\ consumed = produced

(***************************************************************************)
(* C34: Reactor::wake_up_pending writes to the wakeup handle of a peer     *)
(* only after it has read the sleeping flag of that peer as true; it goes  *)
(* through the peers in ascending order, so that no peer is woken twice in *)
(* one invocation however many messages were sent to it; a peer is pending *)
(* only when send_msg has enqueued a message to it since the invocation    *)
(* before; and the invocation leaves _pending_wakeups empty.               *)
(***************************************************************************)
C34_Invoked(th) == th.pc \in {"wake_up_pending", "store", "wake_up"}

C34_OnlySleepingPeers(t) ==
    /\ (thread'[t].pc = "store" /\ thread[t].pc # "store") =>
           /\ thread[t].pc = "wake_up_pending"
           /\ thread'[t].id \in _pending_wakeups[t]
           /\ _thread_is_sleeping[thread'[t].id]
    /\ (thread'[t].pc = "wake_up" /\ thread[t].pc # "wake_up") =>
           /\ thread[t].pc = "store"
           /\ thread'[t].id = thread[t].id

C34_WakeUpsAreOfWakers ==
    \A id \in Threads :
        (_efds'[id] = 1 /\ _efds[id] = 0) =>
            \E t \in Threads : thread[t].pc = "wake_up" /\ thread[t].id = id /\ t # id

C34_OncePerPeer(t) ==
    /\ (C34_Invoked(thread[t]) /\ C34_Invoked(thread'[t])) => thread'[t].id >= thread[t].id
    /\ (thread[t].pc = "wake_up" /\ thread'[t] # thread[t]) =>
           \/ ~C34_Invoked(thread'[t])
           \/ thread'[t].id > thread[t].id

C34_PendingIsEnqueued(t) ==
    \A id \in _pending_wakeups'[t] \ _pending_wakeups[t] :
        /\ id # t
        /\ Len(_msg_queues'[id][t].items) = Len(_msg_queues[id][t].items) + 1

C34_LeavesNonePending(t) ==
    (C34_Invoked(thread[t]) /\ ~C34_Invoked(thread'[t])) => _pending_wakeups'[t] = {}

C34_Step ==
    /\ C34_WakeUpsAreOfWakers
    /\ \A t \in Threads :
          /\ C34_OnlySleepingPeers(t)
          /\ C34_OncePerPeer(t)
          /\ C34_PendingIsEnqueued(t)
          /\ C34_LeavesNonePending(t)

C35_StepOf(t) == thread'[t] # thread[t]

C35_Emplaced(c, p) ==
    /\ Len(_msg_queues'[c][p].items) = Len(_msg_queues[c][p].items) + 1
    /\ SubSeq(_msg_queues'[c][p].items, 1, Len(_msg_queues[c][p].items)) =
           _msg_queues[c][p].items

C35_Popped(c, p) ==
    /\ _msg_queues[c][p].items # << >>
    /\ _msg_queues'[c][p].items = Tail(_msg_queues[c][p].items)

C35_Step ==
    \A c \in Threads, p \in Threads :
        _msg_queues'[c][p].items # _msg_queues[c][p].items =>
            /\ c # p
            /\ \/ C35_Emplaced(c, p) /\ C35_StepOf(p) /\ ~C35_StepOf(c)
               \/ /\ C35_Popped(c, p)
                  /\ C35_StepOf(c) /\ ~C35_StepOf(p)
                  /\ thread[c].pc = "poll_messages" /\ thread[c].other = p

C35_SelfSendFails ==
    \A t \in Threads :
        \A s \in {Reactor_send_msg(_msg_queues, t, t, nr_cmds)} :
            s.thrown /\ ~s.ret /\ ~s.sent /\ s.q = _msg_queues

C35_NoQueueToSelf == \A t \in Threads : _msg_queues[t][t].items = << >>

C35_SpscDiscipline ==
    [](C35_SelfSendFails /\ C35_NoQueueToSelf) /\ [][C35_Step]_vars

(* A command forwarded by shard 0 waits in the queue of shard 1 while the  *)
(* reply to an earlier one waits in the queue of shard 0.                  *)
C35_Witness ==
    /\ _msg_queues[1][0].items # << >>
    /\ _msg_queues[0][1].items # << >>

(***************************************************************************)
(* C36: a Command that Server::process_one has allocated is, as long as    *)
(* the process runs, in exactly one place: in the queue to its target      *)
(* shard, in the queue back to its origin shard, or deleted, once, by      *)
(* on_message of the origin shard after the target shard has had it.  It   *)
(* is never leaked and never in a queue after its deletion.                *)
(***************************************************************************)
(* The commands received for which process_one allocates a Command.        *)
C36_Allocated ==
    {i \in 1 .. Len(received) :
        /\ received[i].state # "Error"
        /\ Server_find_target(received[i].sock, received[i].key) # received[i].sock}

C36_Target(i) == Server_find_target(received[i].sock, received[i].key)

C36_InQueue(id, c, p) ==
    Cardinality({k \in 1 .. Len(_msg_queues[c][p].items) : _msg_queues[c][p].items[k].id = id})

C36_DeliveredTo(id, c, p) ==
    Cardinality({k \in 1 .. Len(delivered_msgs[c][p]) : delivered_msgs[c][p][k] = id})

(* The deletions of the Command: the deliveries of it to its origin.       *)
C36_Deleted(i) == C36_DeliveredTo(received[i].id, received[i].sock, C36_Target(i))

C36_Places(i) ==
    C36_InQueue(received[i].id, C36_Target(i), received[i].sock)
    + C36_InQueue(received[i].id, received[i].sock, C36_Target(i))
    + C36_Deleted(i)

C36_EnvelopeOwnership ==
    ~aborted =>
        \A i \in C36_Allocated :
            /\ C36_Places(i) = 1
            /\ C36_Deleted(i) = 1 =>
                   C36_DeliveredTo(received[i].id, C36_Target(i), received[i].sock) = 1

(***************************************************************************)
(* C37: on one TCP connection the responses are written to the socket in   *)
(* the order in which their requests were received, also when some of the  *)
(* requests are executed by the receiving shard and others are forwarded.  *)
(***************************************************************************)
C37_ResponsesInRequestOrder ==
    \A i \in 1 .. Len(wire), j \in 1 .. Len(wire) :
        (i < j /\ wire[i].sock = wire[j].sock) => wire[i].id < wire[j].id

(***************************************************************************)
(* C38: a set whose header line has arrived and whose data block has not   *)
(* arrived completely is not executed and none of its bytes are consumed;  *)
(* when the missing bytes have arrived it is executed once.  Whatever the  *)
(* pieces in which the bytes of the connection arrive, the commands        *)
(* executed are the commands of the client that have arrived completely,   *)
(* in order, and the receive buffer holds the bytes that follow them.      *)
(***************************************************************************)
RECURSIVE C38_AllBytes(_)
C38_AllBytes(cmds) ==
    IF cmds = << >> THEN << >> ELSE Bytes(Head(cmds)) \o C38_AllBytes(Tail(cmds))

(* The number of bytes that have arrived.                                  *)
C38_Arrived == Len(C38_AllBytes(requests)) - Len(unread)

(* The number of commands of the client that have arrived completely.      *)
C38_Complete ==
    Cardinality({n \in 1 .. Len(requests) :
                    Len(C38_AllBytes(SubSeq(requests, 1, n))) <= C38_Arrived})

C38_SplitIndependent ==
    /\ processed = SubSeq(requests, 1, C38_Complete)
    /\ _rx_buffer = SubSeq(C38_AllBytes(requests),
                           Len(C38_AllBytes(SubSeq(requests, 1, C38_Complete))) + 1,
                           C38_Arrived)

(* The header line of a set has arrived after an earlier command, and its  *)
(* data block only in part.                                                *)
C38_Witness ==
    /\ processed # << >>
    /\ Len(_rx_buffer) > 5
    /\ Parser_parse(_rx_buffer)._state = "CmdSet"
    /\ unread # << >>

(***************************************************************************)
(* C39: in a freshly constructed Log, all segments empty, Log::append      *)
(* succeeds for every key and blob whose object is not larger than         *)
(* segment_size.  The blobs taken make objects of 13, 16, 36, 48, 49, 64   *)
(* and 65 bytes.                                                           *)
(***************************************************************************)
C39_BlobSizes == {0, 3, 23, 35, 36, 51, 52}

C39_Fresh == nr_calls = 0 /\ ~crashed /\ \A s \in Segs : Segment_is_empty(Log, s)

C39_FreshAppendSucceeds ==
    C39_Fresh =>
        \A key \in Keys, n \in C39_BlobSizes :
            Object_size_of(Len(key), n) <= segment_size =>
                \A a \in C31_Appends(key, Blob(n)) : a.ret

(***************************************************************************)
(* C40: Segment::append succeeds exactly when remaining() is at least the  *)
(* size of the object, an exact fit included: the object is placed at the  *)
(* old cursor and the cursor advances by its size, the objects stored      *)
(* before and the other segments are as they were; otherwise it returns    *)
(* null and changes nothing.  In every state the cursor is between start   *)
(* and end, occupancy() + remaining() is the capacity of the segment, and  *)
(* a segment is empty after reset().  The blobs taken make objects of 13,  *)
(* 16, 32, 36, 48 and 49 bytes.                                            *)
(***************************************************************************)
C40_BlobSizes == {0, 3, 19, 23, 35, 36}

C40_Appended(s, key, blob, a) ==
    IF Segment_remaining(Log, s) >= Object_size_of(Len(key), Len(blob))
    THEN /\ a.ret = Ptr(s, pos[s])
         /\ a.L.pos[s] = pos[s] + Object_size_of(Len(key), Len(blob))
         /\ SubSeq(a.L.mem[s], pos[s] + 1, a.L.pos[s]) = Object_Object(key, blob)
         /\ SubSeq(a.L.mem[s], 1, pos[s]) = SubSeq(mem[s], 1, pos[s])
         /\ \A u \in Segs \ {s} : a.L.pos[u] = pos[u] /\ a.L.mem[u] = mem[u]
    ELSE /\ a.ret = NULL
         /\ a.L = Log

C40_SegmentAppendExact ==
    \A s \in Segs :
        /\ 0 <= pos[s]
        /\ pos[s] <= Capacity
        /\ Segment_occupancy(Log, s) + Segment_remaining(Log, s) = Capacity
        /\ Segment_is_empty(Segment_reset(Log, s), s)
        /\ Segment_occupancy(Segment_reset(Log, s), s) = 0
        /\ \A key \in Keys, n \in C40_BlobSizes :
               C40_Appended(s, key, Blob(n), Segment_append(Log, s, key, Blob(n)))

(* The latest call was an append whose object filled a segment to its end. *)
C40_Witness ==
    /\ ~crashed
    /\ calls # << >>
    /\ calls[1].op = "append"
    /\ calls[1].ret
    /\ \E s \in Segs :
          /\ Segment_is_full(Log, s)
          /\ SubSeq(mem[s], Capacity - calls[1].size + sizeof_Object + 1, Capacity)
                 = calls[1].key \o calls[1].blob

====
